---------------------------- MODULE Spec2Model ----------------------------
(***************************************************************************)
(* A model of the Id/Token engine (src/src/classes/Helix.ts) and of the    *)
(* session authority built on it (src/src/classes/auth.ts).                *)
(*                                                                         *)
(* Helix.ts holds two definitions of class Helix: lines 27-215 read the    *)
(* clock with Date.now() ("date"), lines 243-458 with performance.now()    *)
(* ("perf").  Both are modelled; helix.variant says which one an instance  *)
(* was built from.                                                         *)
(*                                                                         *)
(* Numbers.  TLC's integers are 32 bits wide, a Snowflake id is 64 bits    *)
(* wide.  An id is therefore kept as its three bit fields                  *)
(*     [ts, worker, seq]   for   ts << 22 | worker << 12 | seq             *)
(* and ids are compared field by field, which is the order of the packed   *)
(* integers while worker and seq lie within their widths.  Clock readings  *)
(* are kept in ticks of 1/TicksPerMs millisecond, so that the fractional   *)
(* readings of performance.now() have a place in the model.                *)
(***************************************************************************)
EXTENDS Integers, Sequences, FiniteSets, TLC

VARIABLES
    helix,      \* the Helix instance: its fields
    clock,      \* the clock, in ticks
    pc,         \* where generateId() stands: idle, or in its spin-wait
    ret,        \* what the last generateId() call gave back
    hist,       \* history of the ids returned so far
    tk,         \* a token: the data it was made from, what became of it
    auth        \* the Auth instance, its callers and the wall clock

vars == <<helix, clock, pc, ret, hist, tk, auth>>

---------------------------------------------------------------------------
(* Bounds of the model *)

TicksPerMs == 2
StartMs == 999
MaxTicks == 5
NowStart == 1000
MaxCalls == 2
MaxLeaps == 1
MaxTracked == 2
MaxLive == 1

(* Program constants *)

WORKER_ID_BITS == 10
SEQUENCE_BITS == 12
MS_PER_SEC == 1000

MAX_WORKER_ID == 2 ^ WORKER_ID_BITS - 1
MAX_SEQUENCE == 2 ^ SEQUENCE_BITS - 1

Variants == {"date", "perf"}
WorkerIds == {7, MAX_WORKER_ID}

NoId == [ts |-> -1, worker |-> -1, seq |-> -1]

---------------------------------------------------------------------------
(* class Helix: construction *)

\* The fields a constructor call sets.  lastTimestamp = -1 lies before every
\* clock reading.  lastTimeLow holds a millisecond value that may carry a
\* fraction (line 329), so it is kept in ticks.
HelixNew(variant, workerId, tokenSecret) ==
    [variant |-> variant,
     workerId |-> workerId,
     sequence |-> 0,
     lastTimestamp |-> -1,
     lastTimeHigh |-> 0,
     lastTimeLow |-> 0,
     tokenSecret |-> tokenSecret]

\* A range check that lets MAX_WORKER_ID + 1 pass
WorkerIdAcceptedBelowLimit(workerId) == ~(workerId > MAX_WORKER_ID + 1)

\* The constructor's range check: it throws when this is FALSE.
WorkerIdAccepted(workerId) == ~(workerId > MAX_WORKER_ID)

\* No instance
NoHelix == HelixNew("none", 0, "")

\* The worker ids callers pass as options.workerId
ExplicitWorkerIds ==
    {-1, 0, 7, MAX_WORKER_ID, MAX_WORKER_ID + 1, 2 * MAX_WORKER_ID}

\* generateWorkerId(): the first four bytes of the SHA-256 of
\* "hostname:pid", and-ed with MAX_WORKER_ID.  The value depends on the
\* host; these are some of the values 0..MAX_WORKER_ID it can take.
DerivedWorkerIds == {0, 513, MAX_WORKER_ID}

\* new Helix({workerId, tokenSecret}): the instance, or the HelixError of
\* the range check.
HelixConstruct(variant, workerId, tokenSecret) ==
    IF WorkerIdAccepted(workerId)
    THEN [kind |-> "ok", h |-> HelixNew(variant, workerId, tokenSecret)]
    ELSE [kind |-> "HelixError", h |-> NoHelix]

---------------------------------------------------------------------------
(* class Helix: generateId *)

\* x & MAX_SEQUENCE for x >= 0
AndMaxSequence(x) == x % (MAX_SEQUENCE + 1)

\* The id built from a timestamp in milliseconds: the timestamp field is
\* (timestamp - EPOCH), masked to 42 bits in the perf variant; over the clock
\* readings of one run this is the reading shifted by a constant, so the
\* field is kept as the reading itself.
generateIdWithTimestamp(h, timestamp) ==
    [ts |-> timestamp, worker |-> h.workerId, seq |-> h.sequence]

\* Date.now() and Math.floor(performance.now()) of a clock value
MsOf(c) == c \div TicksPerMs

\* A generateId() without the check of line 76: an earlier reading starts a
\* new sequence
GenerateIdDateUnchecked(h, c) ==
    LET timestamp == MsOf(c)
        seq == IF timestamp = h.lastTimestamp
               THEN AndMaxSequence(h.sequence + 1) ELSE 0
        h2 == [h EXCEPT !.sequence = seq, !.lastTimestamp = timestamp]
    IN  [h |-> h2, kind |-> "id",
         id |-> generateIdWithTimestamp(h2, timestamp), since |-> 0]

\* One generateId() call of the Date.now variant, up to its return, its throw
\* or its entry into waitForNextMillis.  c is the clock value it reads.
GenerateIdDate(h, c) ==
    LET timestamp == MsOf(c) IN
    IF timestamp < h.lastTimestamp
    THEN [h |-> h, kind |-> "error", id |-> NoId, since |-> 0]
    ELSE IF timestamp = h.lastTimestamp
    THEN LET seq == AndMaxSequence(h.sequence + 1) IN
         IF seq = 0
         THEN [h |-> [h EXCEPT !.sequence = 0],
               kind |-> "spin", id |-> NoId, since |-> timestamp]
         ELSE LET h2 == [h EXCEPT !.sequence = seq, !.lastTimestamp = timestamp]
              IN  [h |-> h2, kind |-> "id",
                   id |-> generateIdWithTimestamp(h2, timestamp), since |-> 0]
    ELSE LET h2 == [h EXCEPT !.sequence = 0, !.lastTimestamp = timestamp]
         IN  [h |-> h2, kind |-> "id",
              id |-> generateIdWithTimestamp(h2, timestamp), since |-> 0]

\* A wait that goes on until the millisecond after the next one
WaitOverDateSkipping(since, c) == MsOf(c) > since + 1

\* waitForNextMillis(currentTime) leaves its loop on a reading c with
\* Date.now() > currentTime
WaitOverDate(since, c) == MsOf(c) > since

\* The rest of the call once the wait is over, on the reading c
AfterWaitDate(h, c) ==
    LET h2 == [h EXCEPT !.lastTimestamp = MsOf(c)]
    IN  [h |-> h2, kind |-> "id",
         id |-> generateIdWithTimestamp(h2, MsOf(c)), since |-> 0]

\* (timeHigh, timeLow) < (lastTimeHigh, lastTimeLow), lines 314
ClockWentBack(h, timeHigh, timeLow) ==
    \/ timeHigh < h.lastTimeHigh
    \/ (timeHigh = h.lastTimeHigh /\ timeLow * TicksPerMs < h.lastTimeLow)

SameMillisecond(h, timeHigh, timeLow) ==
    timeHigh = h.lastTimeHigh /\ timeLow * TicksPerMs = h.lastTimeLow

\* One generateId() call of the performance.now variant, up to its return,
\* its throw or its entry into the spin loop.  now = c ticks.
GenerateIdPerf(h, c) ==
    LET timestamp == MsOf(c)
        timeHigh == timestamp \div MS_PER_SEC
        timeLow == timestamp % MS_PER_SEC
    IN
    IF ClockWentBack(h, timeHigh, timeLow)
    THEN [h |-> h, kind |-> "error", id |-> NoId, since |-> 0]
    ELSE IF SameMillisecond(h, timeHigh, timeLow)
    THEN LET seq == AndMaxSequence(h.sequence + 1) IN
         IF seq = 0
         THEN [h |-> [h EXCEPT !.sequence = 0],
               kind |-> "spin", id |-> NoId, since |-> c]
         ELSE LET h2 == [h EXCEPT !.sequence = seq,
                                  !.lastTimeHigh = timeHigh,
                                  !.lastTimeLow = timeLow * TicksPerMs]
              IN  [h |-> h2, kind |-> "id",
                   id |-> generateIdWithTimestamp(h2, timestamp), since |-> 0]
    ELSE LET h2 == [h EXCEPT !.sequence = 0,
                             !.lastTimeHigh = timeHigh,
                             !.lastTimeLow = timeLow * TicksPerMs]
         IN  [h |-> h2, kind |-> "id",
              id |-> generateIdWithTimestamp(h2, timestamp), since |-> 0]

\* while (nextTime <= now): the loop is left on a reading nextTime > now
WaitOverPerf(since, c) == c > since

\* Lines 328-330: nextTime = c ticks, with its fraction
AfterWaitPerf(h, c) ==
    LET h2 == [h EXCEPT !.lastTimeHigh = MsOf(c) \div MS_PER_SEC,
                        !.lastTimeLow = c % (MS_PER_SEC * TicksPerMs)]
    IN  [h |-> h2, kind |-> "id",
         id |-> generateIdWithTimestamp(h2, MsOf(c)), since |-> 0]

GenerateIdStep(h, c) ==
    IF h.variant = "date" THEN GenerateIdDate(h, c) ELSE GenerateIdPerf(h, c)

WaitOver(h, since, c) ==
    IF h.variant = "date" THEN WaitOverDate(since, c) ELSE WaitOverPerf(since, c)

AfterWait(h, c) ==
    IF h.variant = "date" THEN AfterWaitDate(h, c) ELSE AfterWaitPerf(h, c)

---------------------------------------------------------------------------
(* The packed id and decodeId.  EPOCH (1420070400000) and 2^42 do not fit   *)
(* TLC's integers, so a large number is kept as the three coefficients      *)
(*     [epoch |-> e, wrap |-> p, ms |-> r]   for   e*EPOCH + p*2^42 + r     *)
(* with r a small number of milliseconds.  EPOCH < 2^42 < 4*EPOCH, so for   *)
(* e in -1..1 the value is negative exactly when p < 0, or p = 0 and e < 0, *)
(* or p = e = 0 and r < 0.  The wall clock of the model starts at the       *)
(* epoch: Date.now() = EPOCH + MsOf(clock), and performance.now() =         *)
(* MsOf(clock) with performance.timeOrigin = EPOCH.                         *)

Big(e, p, r) == [epoch |-> e, wrap |-> p, ms |-> r]

\* x & timestampMask (lines 290, 349) for -2^42 <= x < 2^42
AndTimestampMask(x) ==
    [x EXCEPT !.wrap = IF x.epoch < 0 \/ (x.epoch = 0 /\ x.ms < 0)
                       THEN 1 ELSE 0]

\* The wall-clock time in milliseconds since the Unix epoch at the reading
\* of ms milliseconds
WallClock(ms) == Big(1, 0, ms)

\* The timestamp field of an id made from the reading of ms milliseconds:
\* Date.now() - EPOCH (line 92), or (performance.now() - EPOCH) &
\* timestampMask (lines 348-349)
TimestampField(variant, ms) ==
    IF variant = "date" THEN Big(0, 0, ms)
    ELSE AndTimestampMask(Big(-1, 0, ms))

\* The BigInt built at lines 92-94 and 349-351 as [hi, worker, seq] for
\* hi * 2^22 + worker * 2^12 + seq with worker in 0..1023 and seq in
\* 0..4095.  BigInt(workerId) << 12 of a workerId in -1024..-1 has all its
\* bits from bit 22 on set, so the or with it is -1 from bit 22 on.
PackId(variant, id) ==
    [hi |-> IF id.worker \div (2 ^ WORKER_ID_BITS) = -1 THEN Big(0, 0, -1)
            ELSE TimestampField(variant, id.ts),
     worker |-> id.worker % (2 ^ WORKER_ID_BITS),
     seq |-> id.seq % (2 ^ SEQUENCE_BITS)]

\* Helix.decodeId(id): (id >> 22) + EPOCH, (id >> 12) & MAX_WORKER_ID,
\* id & MAX_SEQUENCE
decodeId(b) ==
    [timestamp |-> [b.hi EXCEPT !.epoch = @ + 1],
     workerId |-> b.worker % (MAX_WORKER_ID + 1),
     sequence |-> b.seq % (MAX_SEQUENCE + 1)]

\* The order of two ids as 64-bit integers
IdLess(a, b) ==
    \/ a.ts < b.ts
    \/ a.ts = b.ts /\ a.worker < b.worker
    \/ a.ts = b.ts /\ a.worker = b.worker /\ a.seq < b.seq

---------------------------------------------------------------------------
(* Text.  A string is a sequence of code points, a buffer a sequence of     *)
(* bytes.                                                                   *)

Dot == 46
Quote == 34
Backslash == 92
ReplacementChar == 65533

\* Buffer.from(string): UTF-8
RECURSIVE Utf8Encode(_)
Utf8Encode(s) ==
    IF s = <<>> THEN <<>>
    ELSE LET c == Head(s) IN
         (IF c < 128 THEN <<c>>
          ELSE IF c < 2048 THEN <<192 + (c \div 64), 128 + (c % 64)>>
          ELSE <<224 + (c \div 4096), 128 + ((c \div 64) % 64), 128 + (c % 64)>>)
         \o Utf8Encode(Tail(s))

IsContinuation(b) == b >= 128 /\ b < 192

\* buffer.toString(): UTF-8, an ill-formed byte read as U+FFFD
RECURSIVE Utf8Decode(_)
Utf8Decode(b) ==
    IF b = <<>> THEN <<>>
    ELSE IF b[1] < 128 THEN <<b[1]>> \o Utf8Decode(Tail(b))
    ELSE IF b[1] >= 194 /\ b[1] < 224 /\ Len(b) >= 2 /\ IsContinuation(b[2])
    THEN <<(b[1] - 192) * 64 + (b[2] - 128)>> \o Utf8Decode(SubSeq(b, 3, Len(b)))
    ELSE IF b[1] >= 224 /\ b[1] < 240 /\ Len(b) >= 3
            /\ IsContinuation(b[2]) /\ IsContinuation(b[3])
            /\ (b[1] - 224) * 4096 + (b[2] - 128) * 64 + (b[3] - 128) >= 2048
    THEN <<(b[1] - 224) * 4096 + (b[2] - 128) * 64 + (b[3] - 128)>>
         \o Utf8Decode(SubSeq(b, 4, Len(b)))
    ELSE <<ReplacementChar>> \o Utf8Decode(Tail(b))

\* The base64url alphabet: A-Z a-z 0-9 - _
B64Char(i) ==
    IF i < 26 THEN 65 + i
    ELSE IF i < 52 THEN 97 + (i - 26)
    ELSE IF i < 62 THEN 48 + (i - 52)
    ELSE IF i = 62 THEN 45
    ELSE 95

\* The decoder's table: both alphabets of base64; -1 for any other character
Unbase64(c) ==
    IF c >= 65 /\ c <= 90 THEN c - 65
    ELSE IF c >= 97 /\ c <= 122 THEN c - 97 + 26
    ELSE IF c >= 48 /\ c <= 57 THEN c - 48 + 52
    ELSE IF c = 45 \/ c = 43 THEN 62
    ELSE IF c = 95 \/ c = 47 THEN 63
    ELSE -1

\* buffer.toString('base64url'): three bytes to four characters, no padding
RECURSIVE Base64UrlEncode(_)
Base64UrlEncode(b) ==
    IF Len(b) = 0 THEN <<>>
    ELSE IF Len(b) = 1
    THEN <<B64Char(b[1] \div 4), B64Char((b[1] % 4) * 16)>>
    ELSE IF Len(b) = 2
    THEN <<B64Char(b[1] \div 4), B64Char(((b[1] % 4) * 16) + (b[2] \div 16)),
           B64Char((b[2] % 16) * 4)>>
    ELSE <<B64Char(b[1] \div 4), B64Char(((b[1] % 4) * 16) + (b[2] \div 16)),
           B64Char(((b[2] % 16) * 4) + (b[3] \div 64)), B64Char(b[3] % 64)>>
         \o Base64UrlEncode(SubSeq(b, 4, Len(b)))

\* The 6-bit values of the legal characters of a string, up to a '=':
\* the decoder skips what is not in its table.
RECURSIVE Sextets(_)
Sextets(s) ==
    IF s = <<>> \/ Head(s) = 61 THEN <<>>
    ELSE IF Unbase64(Head(s)) < 0 THEN Sextets(Tail(s))
    ELSE <<Unbase64(Head(s))>> \o Sextets(Tail(s))

RECURSIVE SextetsToBytes(_)
SextetsToBytes(x) ==
    IF Len(x) < 2 THEN <<>>
    ELSE IF Len(x) = 2 THEN <<(x[1] * 4) + (x[2] \div 16)>>
    ELSE IF Len(x) = 3
    THEN <<(x[1] * 4) + (x[2] \div 16), ((x[2] % 16) * 16) + (x[3] \div 4)>>
    ELSE <<(x[1] * 4) + (x[2] \div 16), ((x[2] % 16) * 16) + (x[3] \div 4),
           ((x[3] % 4) * 64) + x[4]>>
         \o SextetsToBytes(SubSeq(x, 5, Len(x)))

\* Buffer.from(string, 'base64url')
Base64Decode(s) == SextetsToBytes(Sextets(s))

\* string.split(sep)
RECURSIVE Split(_, _)
Split(s, sep) ==
    IF \A i \in 1..Len(s) : s[i] # sep THEN <<s>>
    ELSE LET i == CHOOSE k \in 1..Len(s) :
                     s[k] = sep /\ \A j \in 1..(k - 1) : s[j] # sep
         IN  <<SubSeq(s, 1, i - 1)>> \o Split(SubSeq(s, i + 1, Len(s)), sep)

---------------------------------------------------------------------------
(* JavaScript values and JSON.  A value is [t, v]: t its type, v a sequence *)
(* holding what it is made of.  Numbers are integers here.                  *)

JNull == [t |-> "null", v |-> <<>>]
JUndefined == [t |-> "undefined", v |-> <<>>]
JNaN == [t |-> "nan", v |-> <<>>]
JBool(b) == [t |-> "bool", v |-> <<IF b THEN 1 ELSE 0>>]
JNum(n) == [t |-> "num", v |-> <<n>>]
JStr(s) == [t |-> "str", v |-> s]
JArr(a) == [t |-> "arr", v |-> a]
\* an object: its properties <<key, value>> in insertion order
JObj(o) == [t |-> "obj", v |-> o]

\* assert.deepStrictEqual on these values
JsEqual(a, b) == a.t = b.t /\ a.v = b.v

RECURSIVE Digits(_)
Digits(n) == IF n < 10 THEN <<48 + n>> ELSE Digits(n \div 10) \o <<48 + (n % 10)>>

\* A string in double quotes, '"' and '\' escaped
RECURSIVE Escaped(_)
Escaped(s) ==
    IF s = <<>> THEN <<>>
    ELSE (IF Head(s) = Quote \/ Head(s) = Backslash
          THEN <<Backslash, Head(s)>> ELSE <<Head(s)>>) \o Escaped(Tail(s))

Quoted(s) == <<Quote>> \o Escaped(s) \o <<Quote>>

\* JSON.stringify(value) for a value it gives a string for: NaN is written
\* null, an undefined array element null, an undefined property is left out.
RECURSIVE Stringify(_), StringifyElements(_), StringifyMembers(_, _)
Stringify(x) ==
    CASE x.t = "null" -> <<110, 117, 108, 108>>
      [] x.t = "nan" -> <<110, 117, 108, 108>>
      [] x.t = "undefined" -> <<110, 117, 108, 108>>
      [] x.t = "bool" -> IF x.v[1] = 1 THEN <<116, 114, 117, 101>>
                         ELSE <<102, 97, 108, 115, 101>>
      [] x.t = "num" -> IF x.v[1] < 0 THEN <<45>> \o Digits(0 - x.v[1])
                        ELSE Digits(x.v[1])
      [] x.t = "str" -> Quoted(x.v)
      [] x.t = "arr" -> <<91>> \o StringifyElements(x.v) \o <<93>>
      [] x.t = "obj" -> <<123>> \o StringifyMembers(x.v, TRUE) \o <<125>>

StringifyElements(a) ==
    IF a = <<>> THEN <<>>
    ELSE Stringify(Head(a))
         \o (IF Len(a) > 1 THEN <<44>> ELSE <<>>) \o StringifyElements(Tail(a))

StringifyMembers(o, first) ==
    IF o = <<>> THEN <<>>
    ELSE IF Head(o)[2].t = "undefined" THEN StringifyMembers(Tail(o), first)
    ELSE (IF first THEN <<>> ELSE <<44>>)
         \o Quoted(Head(o)[1]) \o <<58>> \o Stringify(Head(o)[2])
         \o StringifyMembers(Tail(o), FALSE)

\* JSON.parse: a recursive-descent reader.  Each reader gives [ok, val, next]:
\* the value read and the index after it.
At(s, i) == IF i >= 1 /\ i <= Len(s) THEN s[i] ELSE -1
StartsWith(s, i, lit) ==
    i + Len(lit) - 1 <= Len(s) /\ SubSeq(s, i, i + Len(lit) - 1) = lit
ParseFail == [ok |-> FALSE, val |-> JNull, next |-> 0]
Parsed(val, next) == [ok |-> TRUE, val |-> val, next |-> next]
IsDigit(c) == c >= 48 /\ c <= 57

RECURSIVE ParseDigits(_, _, _)
ParseDigits(s, i, acc) ==
    IF IsDigit(At(s, i)) THEN ParseDigits(s, i + 1, acc * 10 + (At(s, i) - 48))
    ELSE Parsed(JNum(acc), i)

\* A number: -? (0 | [1-9][0-9]*); a fraction or an exponent is not read.
ParseNumber(s, i) ==
    LET neg == At(s, i) = 45
        k == IF neg THEN i + 1 ELSE i
        r == IF At(s, k) = 48 THEN Parsed(JNum(0), k + 1)
             ELSE IF IsDigit(At(s, k)) THEN ParseDigits(s, k, 0)
             ELSE ParseFail
    IN  IF ~r.ok \/ At(s, r.next) \in {46, 69, 101} THEN ParseFail
        ELSE IF neg THEN Parsed(JNum(0 - r.val.v[1]), r.next) ELSE r

\* The characters of a string up to its closing quote; the escapes read are
\* \" \\ and \/ .
RECURSIVE ParseString(_, _, _)
ParseString(s, i, acc) ==
    LET c == At(s, i) IN
    IF c = -1 \/ (c >= 0 /\ c < 32) THEN ParseFail
    ELSE IF c = Quote THEN Parsed(JStr(acc), i + 1)
    ELSE IF c = Backslash
    THEN IF At(s, i + 1) \in {Quote, Backslash, 47}
         THEN ParseString(s, i + 2, acc \o <<At(s, i + 1)>>)
         ELSE ParseFail
    ELSE ParseString(s, i + 1, acc \o <<c>>)

RECURSIVE ParseValue(_, _), ParseElements(_, _, _), ParseMembers(_, _, _)
ParseValue(s, i) ==
    LET c == At(s, i) IN
    IF StartsWith(s, i, <<110, 117, 108, 108>>) THEN Parsed(JNull, i + 4)
    ELSE IF StartsWith(s, i, <<116, 114, 117, 101>>) THEN Parsed(JBool(TRUE), i + 4)
    ELSE IF StartsWith(s, i, <<102, 97, 108, 115, 101>>) THEN Parsed(JBool(FALSE), i + 5)
    ELSE IF c = Quote THEN ParseString(s, i + 1, <<>>)
    ELSE IF c = 45 \/ IsDigit(c) THEN ParseNumber(s, i)
    ELSE IF c = 91
    THEN IF At(s, i + 1) = 93 THEN Parsed(JArr(<<>>), i + 2)
         ELSE ParseElements(s, i + 1, <<>>)
    ELSE IF c = 123
    THEN IF At(s, i + 1) = 125 THEN Parsed(JObj(<<>>), i + 2)
         ELSE ParseMembers(s, i + 1, <<>>)
    ELSE ParseFail

ParseElements(s, i, acc) ==
    LET r == ParseValue(s, i) IN
    IF ~r.ok THEN ParseFail
    ELSE IF At(s, r.next) = 44 THEN ParseElements(s, r.next + 1, acc \o <<r.val>>)
    ELSE IF At(s, r.next) = 93 THEN Parsed(JArr(acc \o <<r.val>>), r.next + 1)
    ELSE ParseFail

ParseMembers(s, i, acc) ==
    LET k == IF At(s, i) = Quote THEN ParseString(s, i + 1, <<>>) ELSE ParseFail
        r == IF k.ok /\ At(s, k.next) = 58 THEN ParseValue(s, k.next + 1)
             ELSE ParseFail
    IN
    IF ~r.ok THEN ParseFail
    ELSE IF At(s, r.next) = 44
    THEN ParseMembers(s, r.next + 1, acc \o << <<k.val.v, r.val>> >>)
    ELSE IF At(s, r.next) = 125
    THEN Parsed(JObj(acc \o << <<k.val.v, r.val>> >>), r.next + 1)
    ELSE ParseFail

\* JSON.parse(text): ok is FALSE where it throws a SyntaxError
JSONParse(s) ==
    LET r == ParseValue(s, 1) IN
    IF r.ok /\ r.next = Len(s) + 1 THEN r ELSE ParseFail

---------------------------------------------------------------------------
(* class Helix: tokens *)

DIGEST_BYTES == 32

Secrets == {"", "test-secret", "other-secret"}

SecretByte(secret) ==
    IF secret = "test-secret" THEN 1 ELSE IF secret = "other-secret" THEN 2 ELSE 0

\* createHmac('sha256', secret).update(message).digest().  SHA-256 itself is
\* not computed: the digest is DIGEST_BYTES bytes that are different for
\* different (secret, message) with a message of up to DIGEST_BYTES - 2
\* bytes, which is what the code relies on HMAC for.
HmacSha256(secret, message) ==
    LET x == <<SecretByte(secret), Len(message)>> \o message
    IN  [i \in 1..DIGEST_BYTES |-> IF i <= Len(x) THEN x[i] ELSE 0]

signPayload(h, payload) ==
    Base64UrlEncode(HmacSha256(h.tokenSecret, Utf8Encode(payload)))

\* EncodePayload with the string taken as latin1 bytes instead of UTF-8
EncodePayloadLatin1(jsonData) == Base64UrlEncode(jsonData)

\* Buffer.from(jsonData).toString('base64url')
EncodePayload(jsonData) == Base64UrlEncode(Utf8Encode(jsonData))

\* Buffer.from(payload, 'base64url').toString()
DecodePayload(payload) == Utf8Decode(Base64Decode(payload))

\* A generateToken without the check of lines 363-365
generateTokenUnchecked(h, data) ==
    LET payload == EncodePayload(Stringify(data))
    IN  [kind |-> "ok", msg |-> "",
         token |-> payload \o <<Dot>> \o signPayload(h, payload)]

\* generateToken(data): [kind, msg, token].  JSON.stringify(undefined) is
\* undefined, and Buffer.from(undefined) throws a TypeError.
generateToken(h, data) ==
    IF h.tokenSecret = ""
    THEN [kind |-> "HelixError", msg |-> "Token secret not configured", token |-> <<>>]
    ELSE IF data.t = "undefined"
    THEN [kind |-> "TypeError", msg |-> "ERR_INVALID_ARG_TYPE", token |-> <<>>]
    ELSE LET payload == EncodePayload(Stringify(data))
         IN  [kind |-> "ok", msg |-> "",
              token |-> payload \o <<Dot>> \o signPayload(h, payload)]

\* timingSafeEqual on the bytes the two strings decode to as base64url
timingSafeEqualDecoded(a, b) ==
    IF Len(Base64Decode(a)) # Len(Base64Decode(b)) THEN "RangeError"
    ELSE IF Base64Decode(a) = Base64Decode(b) THEN "true" ELSE "false"

\* crypto.timingSafeEqual(Buffer.from(a), Buffer.from(b)): it throws a
\* RangeError on buffers of different byte lengths.
timingSafeEqual(a, b) ==
    IF Len(Utf8Encode(a)) # Len(Utf8Encode(b)) THEN "RangeError"
    ELSE IF Utf8Encode(a) = Utf8Encode(b) THEN "true" ELSE "false"

Failed(kind, msg) == [kind |-> kind, msg |-> msg, val |-> JNull]

\* verifyToken(token): [kind, msg, val]
verifyToken(h, token) ==
    IF h.tokenSecret = "" THEN Failed("HelixError", "Token secret not configured")
    ELSE LET parts == Split(token, Dot) IN
    IF Len(parts) # 2 THEN Failed("HelixError", "Invalid token format")
    ELSE LET payload == parts[1]
             signature == parts[2]
             same == timingSafeEqual(signature, signPayload(h, payload))
             parsed == JSONParse(DecodePayload(payload))
    IN  IF same = "RangeError"
        THEN Failed("RangeError", "ERR_CRYPTO_TIMING_SAFE_EQUAL_LENGTH")
        ELSE IF same = "false" THEN Failed("HelixError", "Invalid token signature")
        ELSE IF ~parsed.ok THEN Failed("HelixError", "Failed to decode token payload")
        ELSE [kind |-> "ok", msg |-> "", val |-> parsed.val]

\* No token generated yet, none verified
NoResult == [kind |-> "none", msg |-> "", val |-> JNull]
NoToken ==
    [data |-> JNull, made |-> "none", token |-> <<>>, shown |-> <<>>,
     change |-> "none", at |-> 0, res |-> NoResult]

---------------------------------------------------------------------------
(* class Auth (auth.ts): device classification *)

\* String.prototype.toLowerCase on ASCII letters
ToLowerCase(s) ==
    [i \in 1..Len(s) |-> IF s[i] \in 65..90 THEN s[i] + 32 ELSE s[i]]

\* sub stands in s at position i
ContainsAt(s, sub, i) ==
    /\ i + Len(sub) - 1 <= Len(s)
    /\ SubSeq(s, i, i + Len(sub) - 1) = sub

Contains(s, sub) == \E i \in 1..Len(s) : ContainsAt(s, sub, i)

\* (tablet|ipad|playbook|silk) of line 134
TabletWords ==
    { <<116, 97, 98, 108, 101, 116>>,                                 \* tablet
      <<105, 112, 97, 100>>,                                          \* ipad
      <<112, 108, 97, 121, 98, 111, 111, 107>>,                       \* playbook
      <<115, 105, 108, 107>> }                                        \* silk

Android == <<97, 110, 100, 114, 111, 105, 100>>
Mobi == <<109, 111, 98, 105>>

\* The alternatives of the regular expression of line 138, as written
MobileWords ==
    { <<77, 111, 98, 105, 108, 101>>,                                 \* Mobile
      <<65, 110, 100, 114, 111, 105, 100>>,                           \* Android
      <<105, 80, 104, 111, 110, 101>>,                                \* iPhone
      <<105, 80, 111, 100>>,                                          \* iPod
      <<73, 69, 77, 111, 98, 105, 108, 101>>,                         \* IEMobile
      <<66, 108, 97, 99, 107, 66, 101, 114, 114, 121>>,               \* BlackBerry
      <<75, 105, 110, 100, 108, 101>>,                                \* Kindle
      <<83, 105, 108, 107, 45, 65, 99, 99, 101, 108, 101, 114, 97, 116, 101, 100>>,\* Silk-Accelerated
      <<104, 112, 119, 79, 83>>,                                      \* hpwOS
      <<119, 101, 98, 79, 83>>,                                       \* webOS
      <<79, 112, 101, 114, 97, 32, 77, 111, 98, 105>>,                \* Opera Mobi
      <<79, 112, 101, 114, 97, 32, 77, 105, 110, 105>> }              \* Opera Mini

\* The alternatives of the regular expression of line 142, as written
DesktopWords ==
    { <<77, 97, 99, 105, 110, 116, 111, 115, 104>>,                   \* Macintosh
      <<87, 105, 110, 100, 111, 119, 115, 32, 78, 84>>,               \* Windows NT
      <<76, 105, 110, 117, 120>>,                                     \* Linux
      <<85, 98, 117, 110, 116, 117>>,                                 \* Ubuntu
      <<88, 49, 49>> }                                                \* X11

\* /(tablet|ipad|playbook|silk)|(android(?!.*mobi))/i.test(ua): the flag i
\* makes the letters of ua count without their case; "android" matches
\* where no "mobi" follows it.
TabletPattern(ua) ==
    LET l == ToLowerCase(ua) IN
    \/ \E w \in TabletWords : Contains(l, w)
    \/ \E i \in 1..Len(l) :
          /\ ContainsAt(l, Android, i)
          /\ ~ \E j \in (i + Len(Android))..Len(l) : ContainsAt(l, Mobi, j)

\* The tests of lines 138 and 142 have no flag i: they match letter for
\* letter.
MobilePattern(ua) == \E w \in MobileWords : Contains(ua, w)
DesktopPattern(ua) == \E w \in DesktopWords : Contains(ua, w)

\* detectDeviceType: all three tests read ua, the user agent in lower case
detectDeviceType(userAgent) ==
    LET ua == ToLowerCase(userAgent) IN
    IF TabletPattern(ua) THEN "tablet"
    ELSE IF MobilePattern(ua) THEN "mobile"
    ELSE IF DesktopPattern(ua) THEN "desktop"
    ELSE "unknown"

---------------------------------------------------------------------------
(* class Auth: configuration and data *)

\* DEFAULT_CONFIG, in seconds
accessTokenExpiry == 15 * 60
refreshTokenExpiry == 7 * 24 * 60 * 60
rememberMeExpiry == 30 * 24 * 60 * 60

\* The age in seconds beyond which cleanupSessions removes a session
SESSION_MAX_IDLE == 30 * 24 * 60 * 60

\* in milliseconds
IP_CACHE_TTL == 24 * 60 * 60 * 1000

Users == {"u1", "u2"}
Ips == {"10.0.0.1"}

\* The user agent of the callers: "iPhone"
UserAgents == { <<105, 80, 104, 111, 110, 101>> }

\* The code points of the strings the model names
Chars(s) ==
    CASE s = "sessionId" -> <<115, 101, 115, 115, 105, 111, 110, 73, 100>>
      [] s = "userId" -> <<117, 115, 101, 114, 73, 100>>
      [] s = "roles" -> <<114, 111, 108, 101, 115>>
      [] s = "permissions" -> <<112, 101, 114, 109, 105, 115, 115, 105, 111, 110, 115>>
      [] s = "deviceInfo" -> <<100, 101, 118, 105, 99, 101, 73, 110, 102, 111>>
      [] s = "userAgent" -> <<117, 115, 101, 114, 65, 103, 101, 110, 116>>
      [] s = "ip" -> <<105, 112>>
      [] s = "location" -> <<108, 111, 99, 97, 116, 105, 111, 110>>
      [] s = "country" -> <<99, 111, 117, 110, 116, 114, 121>>
      [] s = "city" -> <<99, 105, 116, 121>>
      [] s = "timezone" -> <<116, 105, 109, 101, 122, 111, 110, 101>>
      [] s = "deviceType" -> <<100, 101, 118, 105, 99, 101, 84, 121, 112, 101>>
      [] s = "isRememberMe" -> <<105, 115, 82, 101, 109, 101, 109, 98, 101, 114, 77, 101>>
      [] s = "exp" -> <<101, 120, 112>>
      [] s = "iat" -> <<105, 97, 116>>
      [] s = "tablet" -> <<116, 97, 98, 108, 101, 116>>
      [] s = "mobile" -> <<109, 111, 98, 105, 108, 101>>
      [] s = "desktop" -> <<100, 101, 115, 107, 116, 111, 112>>
      [] s = "unknown" -> <<117, 110, 107, 110, 111, 119, 110>>
      [] s = "Unknown" -> <<85, 110, 107, 110, 111, 119, 110>>
      [] s = "UTC" -> <<85, 84, 67>>
      [] s = "u1" -> <<117, 49>>
      [] s = "u2" -> <<117, 50>>
      [] s = "10.0.0.1" -> <<49, 48, 46, 48, 46, 48, 46, 49>>
      [] s = "NL" -> <<78, 76>>
      [] s = "Amsterdam" -> <<65, 109, 115, 116, 101, 114, 100, 97, 109>>
      [] s = "Europe/Amsterdam" -> <<69, 117, 114, 111, 112, 101, 47, 65, 109, 115, 116, 101, 114, 100, 97, 109>>

\* What ip-api.com answers for an address, as getIPGeolocation keeps it
GeoData(ip) ==
    [ip |-> ip, country |-> "NL", city |-> "Amsterdam",
     timezone |-> "Europe/Amsterdam", latitude |-> 52, longitude |-> 4,
     isp |-> "isp", asn |-> "as"]

\* A placeholder whose timezone is 'Unknown' like its other texts
GeoUnknownTimezone(ip) ==
    [ip |-> ip, country |-> "Unknown", city |-> "Unknown",
     timezone |-> "Unknown", latitude |-> 0, longitude |-> 0,
     isp |-> "Unknown", asn |-> "Unknown"]

\* The minimal data returned when the lookup fails (lines 188-197)
GeoUnknown(ip) ==
    [ip |-> ip, country |-> "Unknown", city |-> "Unknown",
     timezone |-> "UTC", latitude |-> 0, longitude |-> 0,
     isp |-> "Unknown", asn |-> "Unknown"]

\* The ways fetch() settles by itself (fetch.ts lines 141-154): response
\* headers with an ok status, headers with another status, a transport error
FetchOutcomes == {"ok", "status", "error"}

\* The ways response.json() settles: a body with status 'success', a body
\* with another status, a body that cannot be read or parsed
GeoOutcomes == {"success", "fail", "error"}

\* BigInt.toString() of ts << 22 | worker << 12 | seq, in decimal digits.
\* MulAdd gives the digits of digits * m + carry, lowest first.
RECURSIVE MulAdd(_, _, _)
MulAdd(digits, m, carry) ==
    IF digits = <<>>
    THEN IF carry = 0 THEN <<>> ELSE <<carry % 10>> \o MulAdd(<<>>, m, carry \div 10)
    ELSE LET v == (Head(digits) * m) + carry
         IN  <<v % 10>> \o MulAdd(Tail(digits), m, v \div 10)

Reverse(s) == [i \in 1..Len(s) |-> s[Len(s) + 1 - i]]

IdString(id) ==
    LET tsDigits == Reverse([i \in 1..Len(Digits(id.ts)) |-> Digits(id.ts)[i] - 48])
        low == (id.worker * (2 ^ SEQUENCE_BITS)) + id.seq
        all == MulAdd(tsDigits, 2 ^ (WORKER_ID_BITS + SEQUENCE_BITS), low)
    IN  IF all = <<>> THEN <<48>> ELSE Reverse([i \in 1..Len(all) |-> all[i] + 48])

\* deviceInfo as processDeviceInfo returns it (lines 208-217)
DeviceInfo(userAgent, ip, location, deviceType) ==
    [userAgent |-> userAgent, ip |-> ip,
     location |-> [country |-> location.country, city |-> location.city,
                   timezone |-> location.timezone],
     deviceType |-> deviceType]

\* tokenData of lines 248-257
TokenData(sessionId, userId, deviceInfo, isRememberMe, exp, iat) ==
    [sessionId |-> sessionId, userId |-> userId, deviceInfo |-> deviceInfo,
     isRememberMe |-> isRememberMe, exp |-> exp, iat |-> iat]

NoTokenData ==
    TokenData(NoId, "", DeviceInfo(<<>>, "", GeoUnknown(""), "unknown"), FALSE, 0, 0)

\* tokenData as the value handed to JSON.stringify
TokenDataJson(td) ==
    JObj(<< <<Chars("sessionId"), JStr(IdString(td.sessionId))>>,
            <<Chars("userId"), JStr(Chars(td.userId))>>,
            <<Chars("roles"), JArr(<<>>)>>,
            <<Chars("permissions"), JArr(<<>>)>>,
            <<Chars("deviceInfo"),
              JObj(<< <<Chars("userAgent"), JStr(td.deviceInfo.userAgent)>>,
                      <<Chars("ip"), JStr(Chars(td.deviceInfo.ip))>>,
                      <<Chars("location"),
                        JObj(<< <<Chars("country"), JStr(Chars(td.deviceInfo.location.country))>>,
                                <<Chars("city"), JStr(Chars(td.deviceInfo.location.city))>>,
                                <<Chars("timezone"), JStr(Chars(td.deviceInfo.location.timezone))>> >>)>>,
                      <<Chars("deviceType"), JStr(Chars(td.deviceInfo.deviceType))>> >>)>>,
            <<Chars("isRememberMe"), JBool(td.isRememberMe)>>,
            <<Chars("exp"), JNum(td.exp)>>,
            <<Chars("iat"), JNum(td.iat)>> >>)

---------------------------------------------------------------------------
(* class Auth: the session table, the geo cache and the operations on them  *)
(* An Auth is [sessions, ipCache, now, ...]: sessions the entries of the    *)
(* Map as records with their key in id, ipCache the entries of the cache    *)
(* Map with their key in ip, now the wall clock Date.now() in whole         *)
(* seconds.                                                                 *)

\* this.sessions.has(id)
SessionsHas(sessions, id) == \E s \in sessions : s.id = id

\* this.sessions.set(entry.id, entry)
SessionsSet(sessions, entry) == {s \in sessions : s.id # entry.id} \cup {entry}

\* this.sessions.delete(id)
SessionsDelete(sessions, id) == {s \in sessions : s.id # id}

\* The cache entries up to the age of IP_CACHE_TTL, that age included
CacheHitsAtLimit(a, ip) ==
    {c \in a.ipCache :
        c.ip = ip /\ a.now - c.timestamp <= IP_CACHE_TTL \div MS_PER_SEC}

\* The cache entries getIPGeolocation answers from (line 155): wall-clock
\* readings are whole seconds, so the difference in milliseconds is below
\* IP_CACHE_TTL when the one in seconds is below IP_CACHE_TTL / 1000.
CacheHits(a, ip) ==
    {c \in a.ipCache :
        c.ip = ip /\ a.now - c.timestamp < IP_CACHE_TTL \div MS_PER_SEC}

\* this.ipCache.set(ip, {data, timestamp: Date.now()})
CacheSet(a, ip, data) ==
    {c \in a.ipCache : c.ip # ip}
        \cup {[ip |-> ip, data |-> data, timestamp |-> a.now]}

\* A createSession call up to its first await (lines 229-232, 204-206,
\* 152-161): the device type is known, the location is the cached one or is
\* being looked up.  via names the operation the caller invoked.  stage is
\* "lookup" while fetch() is pending, "body" while response.json() is,
\* "ready" when the location is known, "spin" while generateId() waits.
NewCall(a, data, via) ==
    LET hits == CacheHits(a, data.ip) IN
    [data |-> data, via |-> via,
     deviceType |-> detectDeviceType(data.userAgent),
     stage |-> IF hits # {} THEN "ready" ELSE "lookup",
     failed |-> FALSE,
     location |-> IF hits # {} THEN (CHOOSE c \in hits : TRUE).data
                  ELSE GeoUnknown(data.ip)]

\* getIPGeolocation's catch block (lines 186-198) for a waiting call: the
\* placeholder is the location, the call goes on.  failed records that the
\* lookup ended in the catch block.
LookupFailed(call) ==
    [call EXCEPT !.location = GeoUnknown(call.data.ip),
                 !.stage = "ready", !.failed = TRUE]

\* What the last step gave a caller, NoAuthResult when it returned to none.
\* data is the token data the operation
\* built or returned, arg the token data of the token it was called with,
\* wellFormed whether that token came from generateToken, id and user the
\* session id and the user id it was called with, lookupFailed whether the
\* lookup of the call that returned ended in the catch block, lookup where
\* the createSession call that has just run to its await takes the location
\* from ("cache" or "service").
NoAuthResult ==
    [op |-> "none", kind |-> "none", code |-> "", expiresIn |-> 0,
     accessToken |-> <<>>, refreshToken |-> <<>>,
     data |-> NoTokenData, arg |-> NoTokenData, wellFormed |-> FALSE,
     id |-> NoId, user |-> "", lookupFailed |-> FALSE, lookup |-> "none"]

AuthResult(op, kind, code) ==
    [NoAuthResult EXCEPT !.op = op, !.kind = kind, !.code = code]

\* new AuthError(message, code)
AuthError(op, code) == AuthResult(op, "AuthError", code)

\* createSession reads the wall clock four times after the session id is
\* there: for lastActivity (line 241), exp (line 255), iat (line 256) and
\* the exp of the refresh token (line 263).  The readings do not decrease,
\* and the wall clock passes at most one second boundary meanwhile, and
\* none when it has no leap left.
ClockReads(a) ==
    {r \in [stored : {a.now, a.now + 1}, exp : {a.now, a.now + 1},
            iat : {a.now, a.now + 1}, refresh : {a.now, a.now + 1}] :
        /\ r.stored <= r.exp /\ r.exp <= r.iat /\ r.iat <= r.refresh
        /\ a.leaps >= MaxLeaps => r.refresh = a.now}

\* createSession from line 238 on, with the session id it generated and
\* the clock readings it takes: the session is stored, then the two tokens
\* are generated by the Helix h; line 263 is reached when the first
\* generateToken has returned.
StoreSession(a, call, sessionId, h, reads) ==
    LET deviceInfo == DeviceInfo(call.data.userAgent, call.data.ip,
                                 call.location, call.deviceType)
        entry == [id |-> sessionId, userId |-> call.data.userId,
                  deviceInfo |-> deviceInfo,
                  isRememberMe |-> call.data.isRememberMe,
                  lastActivity |-> reads.stored]
        expiresIn == IF call.data.isRememberMe THEN rememberMeExpiry
                     ELSE accessTokenExpiry
        tokenData == TokenData(sessionId, call.data.userId, deviceInfo,
                               call.data.isRememberMe, reads.exp + expiresIn,
                               reads.iat)
        accessToken == generateToken(h, TokenDataJson(tokenData))
        refreshToken ==
            generateToken(h, TokenDataJson(
                [tokenData EXCEPT !.exp = reads.refresh + refreshTokenExpiry]))
        thrown == IF accessToken.kind # "ok" THEN accessToken ELSE refreshToken
        last == IF accessToken.kind # "ok" THEN reads.iat ELSE reads.refresh
    IN  [a EXCEPT
           !.now = last,
           !.leaps = IF last > a.now THEN @ + 1 ELSE @,
           !.sessions = SessionsSet(a.sessions, entry),
           !.res = IF thrown.kind # "ok"
                   THEN [AuthResult(call.via, thrown.kind, thrown.msg)
                            EXCEPT !.data = tokenData,
                                   !.lookupFailed = call.failed]
                   ELSE [AuthResult(call.via, "ok", "") EXCEPT
                            !.expiresIn = expiresIn,
                            !.accessToken = accessToken.token,
                            !.refreshToken = refreshToken.token,
                            !.data = tokenData,
                            !.lookupFailed = call.failed]]

\* Helix.decodeToken(token) of lines 278 and 309: neither class Helix has a
\* static decodeToken, so the call throws a TypeError.
decodeToken(token) == [kind |-> "TypeError", data |-> <<>>]

\* The property key of a parsed object, undefined when it has none
JGet(x, key) ==
    IF x.t = "obj" /\ \E i \in 1..Len(x.v) : x.v[i][1] = key
    THEN x.v[CHOOSE i \in 1..Len(x.v) : x.v[i][1] = key][2]
    ELSE JUndefined

\* tokenData.exp < now: a comparison with a value that is no number is false
ExpBefore(tokenData, now) ==
    JGet(tokenData, Chars("exp")).t = "num"
        /\ JGet(tokenData, Chars("exp")).v[1] < now

\* this.sessions.has(tokenData.sessionId)
HasSessionOf(a, tokenData) ==
    \E s \in a.sessions :
        JsEqual(JStr(IdString(s.id)), JGet(tokenData, Chars("sessionId")))

\* Lines 278-289 and 309-320, the same in validateAccessToken and
\* refreshAccessToken but for the codes: [kind, code, val].  Every throw
\* that is no AuthError becomes the AuthError invalid.
CheckToken(a, token, expired, invalid) ==
    LET decoded == decodeToken(token)
        parsed == JSONParse(IF decoded.data = <<>> THEN <<123, 125>>
                            ELSE decoded.data)
    IN  IF decoded.kind # "ok" \/ ~parsed.ok \/ parsed.val.t = "null"
        THEN [kind |-> "AuthError", code |-> invalid, val |-> JNull]
        ELSE IF ExpBefore(parsed.val, a.now)
        THEN [kind |-> "AuthError", code |-> expired, val |-> JNull]
        ELSE IF ~HasSessionOf(a, parsed.val)
        THEN [kind |-> "AuthError", code |-> "SESSION_NOT_FOUND", val |-> JNull]
        ELSE [kind |-> "ok", code |-> "", val |-> parsed.val]

validateAccessToken(a, token) ==
    CheckToken(a, token, "TOKEN_EXPIRED", "INVALID_TOKEN")

\* Up to line 323 of refreshAccessToken
refreshAccessToken(a, token) ==
    CheckToken(a, token, "REFRESH_TOKEN_EXPIRED", "INVALID_REFRESH_TOKEN")

\* revokeSession emptying the table when it finds the session
revokeSessionClear(a, sessionId) ==
    IF SessionsHas(a.sessions, sessionId) THEN {} ELSE a.sessions

\* revokeUserSessions emptying the table when it finds a session of the user
revokeUserSessionsClear(a, userId) ==
    IF \E s \in a.sessions : s.userId = userId THEN {} ELSE a.sessions

\* revokeSession(sessionId)
revokeSession(a, sessionId) == SessionsDelete(a.sessions, sessionId)

\* revokeUserSessions(userId)
revokeUserSessions(a, userId) == {s \in a.sessions : s.userId # userId}

\* cleanupSessions removing a session from the limit on
cleanupSessionsAtLimit(a) ==
    {s \in a.sessions : ~(a.now - s.lastActivity >= SESSION_MAX_IDLE)}

\* cleanupSessions()
cleanupSessions(a) ==
    {s \in a.sessions : ~(a.now - s.lastActivity > SESSION_MAX_IDLE)}

\* The Auth the constructor builds (lines 111-116), with the wall clock at
\* NowStart and no operation called yet.  calls holds the createSession
\* calls that stand at an await, started counts the calls begun (up to
\* MaxCalls), leaps the advances of the wall clock, gone keeps the first
\* MaxTracked entries that were removed from the session table.
AuthNew ==
    [sessions |-> {}, ipCache |-> {}, now |-> NowStart, calls |-> <<>>,
     started |-> 0, leaps |-> 0, gone |-> {}, res |-> NoAuthResult]

---------------------------------------------------------------------------
(* class Auth: two-factor codes.  HMAC-SHA1 is not computed in the model:   *)
(* TotpCodes holds, for two secrets, the codes lines 383-397 give for the   *)
(* nine counters TotpFirstCounter .. TotpFirstCounter + 8.                  *)

\* const step = 30 (line 365), and the 30 of line 385
TOTP_STEP == 30

TotpSecrets == {"aMRuhNdtLn5oblFYv1mJCavU5Fs=", "bSWd1KgKZH+Dqpn1w22Jzu9z7t8="}

TotpFirstCounter == 59788796

TotpCodes(secret) ==
    IF secret = "aMRuhNdtLn5oblFYv1mJCavU5Fs="
    THEN <<"222115", "528565", "697556", "991866", "088333", "396510", "191834", "494269", "503217">>
    ELSE <<"885629", "901678", "281578", "992074", "750208", "292383", "750208", "992745", "820719">>

\* The code of a counter: HMAC-SHA1 of the counter under the key, dynamic
\* truncation, the last six decimal digits (lines 383-397)
CodeOfStep(secret, counter) ==
    TotpCodes(secret)[counter - TotpFirstCounter + 1]

\* generateTOTPCode(secret, timestamp), timestamp in seconds
generateTOTPCode(secret, timestamp) ==
    CodeOfStep(secret, timestamp \div TOTP_STEP)

\* A verifyTOTP that looks two steps back and ahead
verifyTOTPFiveSteps(secret, code, now) ==
    \E i \in -2..2 : code = generateTOTPCode(secret, now + (i * TOTP_STEP))

\* verifyTOTP(secret, code) at the wall-clock second now (lines 363-377)
verifyTOTP(secret, code, now) ==
    \E i \in -1..1 : code = generateTOTPCode(secret, now + (i * TOTP_STEP))

\* Buffer.toString('hex'): two digits of 0-9a-f for each byte
HexChar(n) == IF n < 10 THEN 48 + n ELSE 97 + (n - 10)

RECURSIVE ToHex(_)
ToHex(bytes) ==
    IF bytes = <<>> THEN <<>>
    ELSE <<HexChar(Head(bytes) \div 16), HexChar(Head(bytes) % 16)>>
            \o ToHex(Tail(bytes))

\* String.prototype.toUpperCase on ASCII letters
ToUpperCase(s) ==
    [i \in 1..Len(s) |-> IF s[i] \in 97..122 THEN s[i] - 32 ELSE s[i]]

\* One code of generateBackupCodes (line 406) from the four bytes
\* crypto.randomBytes(4) gave
BackupCode(bytes) == ToUpperCase(ToHex(bytes))

\* generateBackupCodes(count) when randomBytes gives draws[1], draws[2], ...
generateBackupCodes(count, draws) ==
    [i \in 1..count |-> BackupCode(draws[i])]

\* 0-9 and A-F
HexUpper == (48..57) \cup (65..70)

\* A test for eight characters 0-9A-F somewhere in the code, as the pattern
\* without ^ and $ makes it
verifyBackupCodeUnanchored(code) ==
    \E k \in 1..Len(code) :
        /\ k + 7 <= Len(code)
        /\ \A i \in k..(k + 7) : code[i] \in HexUpper

\* verifyBackupCode(code): /^[0-9A-F]{8}$/.test(code)
verifyBackupCode(code) ==
    /\ Len(code) = 8
    /\ \A i \in 1..Len(code) : code[i] \in HexUpper

---------------------------------------------------------------------------
(* The id generator as a state machine *)

NoRet == [kind |-> "none", id |-> NoId, wrapped |-> FALSE, startMs |-> 0]
NoHist == [prev |-> NoId, last |-> NoId, sameTs |-> 0]

\* The history after id is returned: the id returned before it, and how
\* many ids in a row carry id's timestamp field.
Returned(h, id) ==
    [prev |-> h.last, last |-> id,
     sameTs |-> IF h.last.ts = id.ts THEN h.sameTs + 1 ELSE 1]

ClockStart == StartMs * TicksPerMs

IdInit ==
    /\ \E v \in Variants, w \in WorkerIds : helix = HelixNew(v, w, "")
    /\ clock = ClockStart
    /\ pc = [at |-> "idle", since |-> 0, startMs |-> 0]
    /\ ret = NoRet
    /\ hist = NoHist
    /\ tk = NoToken
    /\ auth = AuthNew

\* Time passes.
Tick ==
    /\ clock < ClockStart + MaxTicks
    /\ clock' = clock + 1
    /\ UNCHANGED <<helix, pc, ret, hist, tk, auth>>

\* The system clock is set back by a millisecond (Date.now() only:
\* performance.now() is monotonic).
SetBack ==
    /\ helix.variant = "date"
    /\ clock - TicksPerMs >= ClockStart
    /\ clock' = clock - TicksPerMs
    /\ UNCHANGED <<helix, pc, ret, hist, tk, auth>>

\* generateId() is called and runs to its return, its throw or its wait.
GenerateId ==
    /\ pc.at = "idle"
    /\ LET r == GenerateIdStep(helix, clock) IN
       /\ helix' = r.h
       /\ IF r.kind = "spin"
          THEN /\ pc' = [at |-> "spin", since |-> r.since, startMs |-> MsOf(clock)]
               /\ UNCHANGED <<ret, hist>>
          ELSE /\ pc' = pc
               /\ ret' = [kind |-> r.kind, id |-> r.id, wrapped |-> FALSE,
                          startMs |-> MsOf(clock)]
               /\ hist' = IF r.kind = "id" THEN Returned(hist, r.id) ELSE hist
    /\ UNCHANGED <<clock, tk, auth>>

\* The waiting call reads a clock value that ends its loop, and returns.
SpinExit ==
    /\ pc.at = "spin"
    /\ WaitOver(helix, pc.since, clock)
    /\ LET r == AfterWait(helix, clock) IN
       /\ helix' = r.h
       /\ ret' = [kind |-> "id", id |-> r.id, wrapped |-> TRUE,
                  startMs |-> pc.startMs]
       /\ hist' = Returned(hist, r.id)
    /\ pc' = [at |-> "idle", since |-> 0, startMs |-> 0]
    /\ UNCHANGED <<clock, tk, auth>>

IdNext == Tick \/ SetBack \/ GenerateId \/ SpinExit

SpecId == IdInit /\ [][IdNext]_vars

\* The clock goes on while it can, and the spin loop reads the clock again
\* and again without a pause, so it does not miss a reading that ends it.
SpecIdFair == SpecId /\ WF_vars(Tick) /\ SF_vars(SpinExit)

\* Construction as a state machine: an instance is built with an explicit
\* worker id or with the derived one, and issues its first ids.
MaxNewSequence == 2

NewInit ==
    /\ helix = NoHelix
    /\ clock = ClockStart
    /\ pc = [at |-> "idle", since |-> 0, startMs |-> 0]
    /\ ret = NoRet
    /\ hist = NoHist
    /\ tk = NoToken
    /\ auth = AuthNew

\* new Helix(options).  ret keeps what the caller got and what it passed:
\* explicit says whether options.workerId was given, workerId its value (the
\* derived one otherwise).
Construct ==
    /\ helix = NoHelix
    /\ \E v \in Variants, explicit \in BOOLEAN :
       \E w \in IF explicit THEN ExplicitWorkerIds ELSE DerivedWorkerIds :
          LET r == HelixConstruct(v, w, "") IN
          /\ helix' = r.h
          /\ ret' = [kind |-> IF r.kind = "ok" THEN "new" ELSE r.kind,
                     id |-> NoId, wrapped |-> FALSE, startMs |-> 0,
                     explicit |-> explicit, workerId |-> w]
    /\ UNCHANGED <<clock, pc, hist, tk, auth>>

\* generateId() on the instance built, for its first ids of a millisecond
NewGenerateId ==
    /\ helix # NoHelix
    /\ helix.sequence < MaxNewSequence
    /\ GenerateId

NewNext == Construct \/ NewGenerateId \/ Tick \/ SetBack

SpecNew == NewInit /\ [][NewNext]_vars

---------------------------------------------------------------------------
(* Tokens as a state machine: a token is generated, perhaps altered on its  *)
(* way, and verified by the instance that made it.                          *)

\* The values tokens are made from.  The last four are written by
\* JSON.stringify with a loss, or not at all.
Payloads ==
    << JNull,
       JBool(TRUE),
       JNum(0),
       JNum(-12),
       JStr(<<97, 46, 98>>),
       JStr(<<233, 34, 92>>),
       JArr(<<JNum(1), JStr(<<120>>), JArr(<<>>)>>),
       JObj(<< <<<<117, 115, 101, 114, 73, 100>>, JStr(<<49, 50, 51>>)>> >>),
       JObj(<< <<<<97>>, JObj(<<>>)>>, <<<<98>>, JBool(FALSE)>> >>),
       JNaN,
       JObj(<< <<<<97>>, JNum(1)>>, <<<<98>>, JUndefined>> >>),
       JArr(<<JUndefined>>),
       JUndefined >>

\* A value is kept by JSON as it is when it is built only of null, booleans,
\* numbers, strings, arrays and objects.
RECURSIVE IsJson(_)
IsJson(x) ==
    CASE x.t \in {"null", "bool", "num", "str"} -> TRUE
      [] x.t = "arr" -> \A i \in 1..Len(x.v) : IsJson(x.v[i])
      [] x.t = "obj" -> \A i \in 1..Len(x.v) : IsJson(x.v[i][2])
      [] OTHER -> FALSE

\* The characters one character of a token is replaced by: the next one of
\* the alphabet, a dot, a character outside the alphabet, one outside ASCII
Replacements(c) ==
    ({46, 33, 233} \cup (IF Unbase64(c) >= 0
                         THEN {B64Char((Unbase64(c) + 1) % 64)} ELSE {})) \ {c}

TokenInit ==
    /\ \E secret \in Secrets : helix = HelixNew("perf", 7, secret)
    /\ clock = ClockStart
    /\ pc = [at |-> "idle", since |-> 0, startMs |-> 0]
    /\ ret = NoRet
    /\ hist = NoHist
    /\ tk = NoToken
    /\ auth = AuthNew

TokenGenerate ==
    /\ tk.made = "none"
    /\ \E d \in 1..Len(Payloads) :
          LET r == generateToken(helix, Payloads[d]) IN
          tk' = [tk EXCEPT !.data = Payloads[d], !.made = r.kind,
                           !.token = r.token, !.shown = r.token]
    /\ UNCHANGED <<helix, clock, pc, ret, hist, auth>>

\* A caller holds a token that another instance generated with its secret.
TokenPresent ==
    /\ tk.made = "none"
    /\ \E secret \in Secrets \ {""} : \E d \in 1..Len(Payloads) :
          LET r == generateToken(HelixNew("perf", 7, secret), Payloads[d]) IN
          /\ r.kind = "ok"
          /\ tk' = [tk EXCEPT !.data = Payloads[d], !.made = "foreign",
                              !.token = r.token, !.shown = r.token]
    /\ UNCHANGED <<helix, clock, pc, ret, hist, auth>>

\* One character of the token is changed.
TokenAlter ==
    /\ tk.made = "ok" /\ tk.change = "none" /\ tk.res.kind = "none"
    /\ \E i \in 1..Len(tk.token) : \E c \in Replacements(tk.token[i]) :
          tk' = [tk EXCEPT !.shown = [tk.token EXCEPT ![i] = c],
                           !.change = "char", !.at = i]
    /\ UNCHANGED <<helix, clock, pc, ret, hist, auth>>

\* The token loses its last character, or gains one.
TokenResize ==
    /\ tk.made = "ok" /\ tk.change = "none" /\ tk.res.kind = "none"
    /\ \/ tk' = [tk EXCEPT !.shown = SubSeq(tk.token, 1, Len(tk.token) - 1),
                           !.change = "shorter", !.at = Len(tk.token)]
       \/ tk' = [tk EXCEPT !.shown = tk.token \o <<65>>,
                           !.change = "longer", !.at = Len(tk.token) + 1]
    /\ UNCHANGED <<helix, clock, pc, ret, hist, auth>>

TokenVerify ==
    /\ tk.made # "none" /\ tk.res.kind = "none"
    /\ tk' = [tk EXCEPT !.res = verifyToken(helix, tk.shown)]
    /\ UNCHANGED <<helix, clock, pc, ret, hist, auth>>

TokenNext ==
    TokenGenerate \/ TokenPresent \/ TokenAlter \/ TokenResize \/ TokenVerify

SpecToken == TokenInit /\ [][TokenNext]_vars

---------------------------------------------------------------------------
(* class Auth as a state machine.  An async operation is one action up to   *)
(* each await and one from it on; the synchronous operations are one        *)
(* action each.                                                             *)

AuthInitWith(variants, a) ==
    /\ \E v \in variants : helix = HelixNew(v, 7, "")
    /\ clock = ClockStart
    /\ pc = [at |-> "idle", since |-> 0, startMs |-> 0]
    /\ ret = NoRet
    /\ hist = NoHist
    /\ tk = NoToken
    /\ auth = a

AuthInitOf(variants) == AuthInitWith(variants, AuthNew)

RemoveAt(s, i) == SubSeq(s, 1, i - 1) \o SubSeq(s, i + 1, Len(s))

\* The table entries removed so far, as far as they are kept
Track(a, removed) ==
    IF Cardinality(a.gone \cup removed) <= MaxTracked
    THEN a.gone \cup removed ELSE a.gone

\* a with a createSession call begun for data
StartCall(a, data, via) ==
    LET call == NewCall(a, data, via) IN
    [a EXCEPT !.calls = Append(@, call),
              !.started = IF @ < MaxCalls THEN @ + 1 ELSE @,
              !.res = [NoAuthResult EXCEPT
                         !.lookup = IF call.stage = "ready" THEN "cache"
                                    ELSE "service"]]

\* createSession(data) is called and runs to the await of the lookup.
CreateSessionOf(users, agents, remember, canStart) ==
    /\ pc.at = "idle"
    /\ canStart
    /\ \E u \in users, ua \in agents, ip \in Ips, r \in remember :
          auth' = StartCall(auth, [userId |-> u, userAgent |-> ua, ip |-> ip,
                                   isRememberMe |-> r], "createSession")
    /\ UNCHANGED <<helix, clock, pc, ret, hist, tk>>

CreateSession ==
    CreateSessionOf(Users, UserAgents, BOOLEAN, auth.started < MaxCalls)

\* fetch() of a waiting call settles (fetch.ts lines 141-154): with the
\* response headers of an ok status the timer is cleared and the body is
\* awaited; a transport error or another status throws, which
\* getIPGeolocation catches.
GeoResponse ==
    /\ pc.at = "idle"
    /\ \E i \in 1..Len(auth.calls) : \E outcome \in FetchOutcomes :
          LET call == auth.calls[i] IN
          /\ call.stage = "lookup"
          /\ auth' = [auth EXCEPT
                        !.calls[i] = IF outcome = "ok"
                                     THEN [call EXCEPT !.stage = "body"]
                                     ELSE LookupFailed(call),
                        !.res = NoAuthResult]
    /\ UNCHANGED <<helix, clock, pc, ret, hist, tk>>

\* The timer of fetch.ts line 139 fires while fetch() is pending: the
\* request is aborted, fetch() rejects, getIPGeolocation catches.  The
\* timer is cleared at line 151, before response.json() is awaited.
GeoTimeout ==
    /\ pc.at = "idle"
    /\ \E i \in 1..Len(auth.calls) :
          /\ auth.calls[i].stage = "lookup"
          /\ auth' = [auth EXCEPT !.calls[i] = LookupFailed(@),
                                  !.res = NoAuthResult]
    /\ UNCHANGED <<helix, clock, pc, ret, hist, tk>>

\* A lookup that puts the placeholder of a failed lookup into the cache
GeoAnswerCachingFailure ==
    /\ pc.at = "idle"
    /\ \E i \in 1..Len(auth.calls) : \E outcome \in GeoOutcomes :
          LET call == auth.calls[i] IN
          /\ call.stage = "body"
          /\ auth' = IF outcome = "success"
                     THEN [auth EXCEPT
                             !.ipCache = CacheSet(auth, call.data.ip, GeoData(call.data.ip)),
                             !.calls[i].location = GeoData(call.data.ip),
                             !.calls[i].stage = "ready",
                             !.res = NoAuthResult]
                     ELSE [auth EXCEPT
                             !.ipCache = CacheSet(auth, call.data.ip, GeoUnknown(call.data.ip)),
                             !.calls[i] = LookupFailed(call),
                             !.res = NoAuthResult]
    /\ UNCHANGED <<helix, clock, pc, ret, hist, tk>>

\* response.json() of a waiting call settles (fetch.ts line 157, auth.ts
\* lines 163-198).
GeoAnswer ==
    /\ pc.at = "idle"
    /\ \E i \in 1..Len(auth.calls) : \E outcome \in GeoOutcomes :
          LET call == auth.calls[i] IN
          /\ call.stage = "body"
          /\ auth' = IF outcome = "success"
                     THEN [auth EXCEPT
                             !.ipCache = CacheSet(auth, call.data.ip, GeoData(call.data.ip)),
                             !.calls[i].location = GeoData(call.data.ip),
                             !.calls[i].stage = "ready",
                             !.res = NoAuthResult]
                     ELSE [auth EXCEPT
                             !.calls[i] = LookupFailed(call),
                             !.res = NoAuthResult]
    /\ UNCHANGED <<helix, clock, pc, ret, hist, tk>>

\* A call goes on after its await (lines 235-270): it generates the session
\* id, which may throw or wait for the clock, stores the session and
\* generates the tokens.
CreateSessionResume ==
    /\ pc.at = "idle"
    /\ \E i \in 1..Len(auth.calls) :
          LET call == auth.calls[i]
              r == GenerateIdStep(helix, clock)
              rest == [auth EXCEPT !.calls = RemoveAt(@, i)]
          IN
          /\ call.stage = "ready"
          /\ helix' = r.h
          /\ IF r.kind = "spin"
             THEN /\ pc' = [at |-> "spin", since |-> r.since, startMs |-> MsOf(clock)]
                  /\ auth' = [auth EXCEPT !.calls[i].stage = "spin",
                                           !.res = NoAuthResult]
             ELSE /\ pc' = pc
                  /\ IF r.kind = "error"
                     THEN auth' = [rest EXCEPT !.res =
                                     AuthResult(call.via, "HelixError", "Clock moved backwards")]
                     ELSE \E reads \in ClockReads(auth) :
                             auth' = StoreSession(rest, call, r.id, r.h, reads)
    /\ UNCHANGED <<clock, ret, hist, tk>>

\* The call waiting in generateId() reads a clock value that ends the wait.
CreateSessionSpinExit ==
    /\ pc.at = "spin"
    /\ WaitOver(helix, pc.since, clock)
    /\ \E i \in 1..Len(auth.calls) :
          LET call == auth.calls[i]
              r == AfterWait(helix, clock)
          IN
          /\ call.stage = "spin"
          /\ helix' = r.h
          /\ \E reads \in ClockReads(auth) :
                auth' = StoreSession([auth EXCEPT !.calls = RemoveAt(@, i)],
                                     call, r.id, r.h, reads)
    /\ pc' = [at |-> "idle", since |-> 0, startMs |-> 0]
    /\ UNCHANGED <<clock, ret, hist, tk>>

\* The token data createSession puts into the access token and into the
\* refresh token of a session
TokenDataOf(s) ==
    {TokenData(s.id, s.userId, s.deviceInfo, s.isRememberMe,
               s.lastActivity + e, s.lastActivity) :
        e \in {IF s.isRememberMe THEN rememberMeExpiry ELSE accessTokenExpiry,
               refreshTokenExpiry}}

\* The tokens callers present: a token for a session that is or was in the
\* table, as a Helix with a secret generates it, or the string "x"
TokenInputs(a) ==
    {[td |-> td, wellFormed |-> TRUE] :
        td \in UNION {TokenDataOf(s) : s \in a.sessions \cup a.gone}}
        \cup {[td |-> NoTokenData, wellFormed |-> FALSE]}

TokenOf(inp) ==
    IF inp.wellFormed
    THEN generateToken(HelixNew("perf", 7, "test-secret"), TokenDataJson(inp.td)).token
    ELSE <<120>>

\* A validateAccessToken that records the use of the session its token
\* names
ValidateAccessTokenTouching ==
    /\ pc.at = "idle"
    /\ \E inp \in TokenInputs(auth) :
          LET r == validateAccessToken(auth, TokenOf(inp)) IN
          auth' = [auth EXCEPT
                     !.sessions =
                        {IF inp.wellFormed /\ s.id = inp.td.sessionId
                         THEN [s EXCEPT !.lastActivity = auth.now] ELSE s :
                            s \in auth.sessions},
                     !.res =
                        [AuthResult("validateAccessToken", r.kind, r.code) EXCEPT
                           !.arg = inp.td, !.wellFormed = inp.wellFormed,
                           !.data = IF r.kind = "ok" THEN inp.td ELSE NoTokenData]]
    /\ UNCHANGED <<helix, clock, pc, ret, hist, tk>>

ValidateAccessToken ==
    /\ pc.at = "idle"
    /\ \E inp \in TokenInputs(auth) :
          LET r == validateAccessToken(auth, TokenOf(inp)) IN
          auth' = [auth EXCEPT !.res =
                     [AuthResult("validateAccessToken", r.kind, r.code) EXCEPT
                        !.arg = inp.td, !.wellFormed = inp.wellFormed,
                        !.data = IF r.kind = "ok" THEN inp.td ELSE NoTokenData]]
    /\ UNCHANGED <<helix, clock, pc, ret, hist, tk>>

\* refreshAccessToken(token) up to the await inside the createSession it
\* calls with the stored session (lines 323-326), or to its throw.
RefreshAccessToken ==
    /\ pc.at = "idle"
    /\ \E inp \in TokenInputs(auth) :
          LET r == refreshAccessToken(auth, TokenOf(inp)) IN
          auth' = IF r.kind = "ok"
                  THEN LET s == CHOOSE s \in auth.sessions : s.id = inp.td.sessionId
                       IN  StartCall(auth, [userId |-> s.userId,
                                            userAgent |-> s.deviceInfo.userAgent,
                                            ip |-> s.deviceInfo.ip,
                                            isRememberMe |-> s.isRememberMe],
                                     "refreshAccessToken")
                  ELSE [auth EXCEPT !.res =
                          [AuthResult("refreshAccessToken", r.kind, r.code) EXCEPT
                             !.arg = inp.td, !.wellFormed = inp.wellFormed]]
    /\ UNCHANGED <<helix, clock, pc, ret, hist, tk>>

\* revokeSession(id) for the id of a session that is or was in the table,
\* or for an id that never was
RevokeSession ==
    /\ pc.at = "idle"
    /\ \E id \in {s.id : s \in auth.sessions \cup auth.gone} \cup {NoId} :
          LET left == revokeSession(auth, id) IN
          auth' = [auth EXCEPT !.sessions = left,
                               !.gone = Track(auth, auth.sessions \ left),
                               !.res = [AuthResult("revokeSession", "ok", "")
                                           EXCEPT !.id = id]]
    /\ UNCHANGED <<helix, clock, pc, ret, hist, tk>>

\* revokeUserSessions(userId) for one of the users
RevokeUserSessionsOf(users) ==
    /\ pc.at = "idle"
    /\ \E u \in users :
          LET left == revokeUserSessions(auth, u) IN
          auth' = [auth EXCEPT !.sessions = left,
                               !.gone = Track(auth, auth.sessions \ left),
                               !.res = [AuthResult("revokeUserSessions", "ok", "")
                                           EXCEPT !.user = u]]
    /\ UNCHANGED <<helix, clock, pc, ret, hist, tk>>

RevokeUserSessions == RevokeUserSessionsOf(Users)

CleanupSessions ==
    /\ pc.at = "idle"
    /\ LET left == cleanupSessions(auth) IN
       auth' = [auth EXCEPT !.sessions = left,
                            !.gone = Track(auth, auth.sessions \ left),
                            !.res = AuthResult("cleanupSessions", "ok", "")]
    /\ UNCHANGED <<helix, clock, pc, ret, hist, tk>>

\* The wall clock advances: by a second, by the life of an access token or
\* the idle time of a session, or by a second more than these, or by the
\* life of a cache entry or a second less.
WallSteps ==
    {1, accessTokenExpiry, accessTokenExpiry + 1,
     (IP_CACHE_TTL \div MS_PER_SEC) - 1, IP_CACHE_TTL \div MS_PER_SEC,
     SESSION_MAX_IDLE, SESSION_MAX_IDLE + 1}

WallTick ==
    /\ auth.leaps < MaxLeaps
    /\ \E d \in WallSteps :
          auth' = [auth EXCEPT !.now = @ + d, !.leaps = @ + 1,
                               !.res = NoAuthResult]
    /\ UNCHANGED <<helix, clock, pc, ret, hist, tk>>

\* The clock Helix reads stands still here, so that the ids of the sessions
\* differ in their sequence field; the wall clock Auth reads advances.
AuthInit == AuthInitOf(Variants)

AuthNext ==
    \/ CreateSession
    \/ GeoResponse
    \/ GeoTimeout
    \/ GeoAnswer
    \/ CreateSessionResume
    \/ ValidateAccessToken
    \/ RefreshAccessToken
    \/ RevokeSession
    \/ RevokeUserSessions
    \/ CleanupSessions
    \/ WallTick

SpecAuth == AuthInit /\ [][AuthNext]_vars

\* createSession calls and their lookups alone.  The timer of fetch.ts line
\* 139 fires when its delay is over and a call whose await has settled is
\* resumed by the event loop; nothing makes the service answer.
LookupNext ==
    \/ CreateSession
    \/ GeoResponse
    \/ GeoTimeout
    \/ GeoAnswer
    \/ CreateSessionResume
    \/ WallTick

SpecLookup ==
    /\ AuthInit
    /\ [][LookupNext]_vars
    /\ WF_vars(GeoTimeout)
    /\ WF_vars(CreateSessionResume)

\* Backup codes.  The values crypto.randomBytes(4) gives here:
BackupBytes ==
    { <<0, 0, 0, 0>>, <<10, 171, 205, 239>>, <<18, 52, 86, 120>>,
      <<255, 255, 255, 255>> }

\* The count argument of generateBackupCodes is at most this (default: 8)
MaxBackupCount == 2

\* The strings callers present as backup codes: the codes issued so far,
\* 0123ABCD (never issued), 0123abcd, 0123ABC, 0123ABCDE, 0123ABCG, the
\* empty string, 0123ABCD with a line feed after it
BackupInputs(a) ==
    a.issued \cup
    { <<48, 49, 50, 51, 65, 66, 67, 68>>,
      <<48, 49, 50, 51, 97, 98, 99, 100>>,
      <<48, 49, 50, 51, 65, 66, 67>>,
      <<48, 49, 50, 51, 65, 66, 67, 68, 69>>,
      <<48, 49, 50, 51, 65, 66, 67, 71>>,
      <<>>,
      <<48, 49, 50, 51, 65, 66, 67, 68, 10>> }

\* issued keeps the codes generateBackupCodes returned, used the first
\* MaxTracked strings verifyBackupCode was called with.
BackupInit ==
    /\ \E v \in Variants : helix = HelixNew(v, 7, "")
    /\ clock = ClockStart
    /\ pc = [at |-> "idle", since |-> 0, startMs |-> 0]
    /\ ret = NoRet
    /\ hist = NoHist
    /\ tk = NoToken
    /\ auth = [issued |-> {}, used |-> {}] @@ AuthNew

GenerateBackupCodes ==
    /\ \E count \in 1..MaxBackupCount : \E draws \in [1..count -> BackupBytes] :
          LET codes == generateBackupCodes(count, draws) IN
          auth' = [auth EXCEPT
                     !.issued = @ \cup {codes[i] : i \in 1..count},
                     !.res = [op |-> "generateBackupCodes", kind |-> "ok",
                              value |-> codes]]
    /\ UNCHANGED <<helix, clock, pc, ret, hist, tk>>

\* verifyBackupCode(code): res keeps the argument, the value returned, and
\* whether the code was issued and was verified before.
VerifyBackupCode ==
    /\ \E code \in BackupInputs(auth) :
          auth' = [auth EXCEPT
                     !.used = IF Cardinality(@ \cup {code}) <= MaxTracked
                              THEN @ \cup {code} ELSE @,
                     !.res = [op |-> "verifyBackupCode", kind |-> "ok",
                              input |-> code,
                              value |-> verifyBackupCode(code),
                              issued |-> code \in auth.issued,
                              before |-> code \in auth.used]]
    /\ UNCHANGED <<helix, clock, pc, ret, hist, tk>>

BackupNext == GenerateBackupCodes \/ VerifyBackupCode

SpecBackup == BackupInit /\ [][BackupNext]_vars

\* Device classification.  The words user agents are made of here:
DeviceWords ==
    { <<105, 80, 97, 100>>,                                           \* iPad
      <<105, 80, 104, 111, 110, 101>>,                                \* iPhone
      <<77, 111, 98, 105, 108, 101>>,                                 \* Mobile
      <<65, 110, 100, 114, 111, 105, 100>>,                           \* Android
      <<87, 105, 110, 100, 111, 119, 115, 32, 78, 84>>,               \* Windows NT
      <<77, 97, 99, 105, 110, 116, 111, 115, 104>>,                   \* Macintosh
      <<108, 105, 110, 117, 120>>,                                    \* linux
      <<77, 111, 122, 105, 108, 108, 97>>,                            \* Mozilla
      <<83, 97, 102, 97, 114, 105>>,                                  \* Safari
      <<99, 117, 114, 108>> }                                         \* curl

\* The user agents: the empty one, a word, two words with a space between
DeviceAgents ==
    {<<>>} \cup DeviceWords
           \cup {a \o <<32>> \o b : a \in DeviceWords, b \in DeviceWords}

DeviceInit == AuthInitOf(Variants)

\* detectDeviceType(userAgent), as processDeviceInfo calls it for the user
\* agent of a createSession call (line 206)
DetectDeviceType ==
    /\ \E ua \in DeviceAgents :
          auth' = [auth EXCEPT !.res =
                     [op |-> "detectDeviceType", kind |-> "ok",
                      userAgent |-> ua, value |-> detectDeviceType(ua)]]
    /\ UNCHANGED <<helix, clock, pc, ret, hist, tk>>

DeviceNext == DetectDeviceType

SpecDevice == DeviceInit /\ [][DeviceNext]_vars

\* verifyTOTP over two minutes of wall-clock time around the second
\* TotpTime, which lies in the step of counter TotpFirstCounter + 4.
TotpTime == ((TotpFirstCounter + 4) * TOTP_STEP) + 17

\* The seconds the wall clock starts at: two steps before TotpTime, and the
\* first and the last second of that step
TotpStartTimes ==
    {TotpTime - (2 * TOTP_STEP), TotpTime - (2 * TOTP_STEP) - 17,
     TotpTime - (2 * TOTP_STEP) + 12}

\* The codes callers present: the codes of the secret at the counters of
\* the model, a code of no counter, and strings that are no codes
TotpInputs(secret) ==
    {TotpCodes(secret)[i] : i \in 1..Len(TotpCodes(secret))}
        \cup {"000000", "75020", ""}

TotpInit ==
    /\ \E v \in Variants : helix = HelixNew(v, 7, "")
    /\ clock = ClockStart
    /\ pc = [at |-> "idle", since |-> 0, startMs |-> 0]
    /\ ret = NoRet
    /\ hist = NoHist
    /\ tk = NoToken
    /\ \E t \in TotpStartTimes : auth = [AuthNew EXCEPT !.now = t]

\* verifyTOTP(secret, code): res keeps the arguments and the value returned
VerifyTOTP ==
    /\ \E secret \in TotpSecrets : \E code \in TotpInputs(secret) :
          auth' = [auth EXCEPT !.res =
                     [op |-> "verifyTOTP", kind |-> "ok", secret |-> secret,
                      input |-> code,
                      value |-> verifyTOTP(secret, code, auth.now)]]
    /\ UNCHANGED <<helix, clock, pc, ret, hist, tk>>

\* A step of 30 seconds passes.
TotpTick ==
    /\ auth.now + TOTP_STEP <= TotpTime + (2 * TOTP_STEP) + 12
    /\ auth' = [auth EXCEPT !.now = @ + TOTP_STEP, !.res = NoAuthResult]
    /\ UNCHANGED <<helix, clock, pc, ret, hist, tk>>

TotpNext == VerifyTOTP \/ TotpTick

SpecTotp == TotpInit /\ [][TotpNext]_vars

\* Sessions come and go within one millisecond: one user logs in and out
\* again and again, so that the table never holds more than MaxLive
\* entries, and the clock stands still but while generateId() waits for it.
ChurnInit == AuthInitWith({"perf"}, [AuthNew EXCEPT !.leaps = MaxLeaps])

ChurnCreateSession ==
    CreateSessionOf({"u1"}, UserAgents, {FALSE},
                    Len(auth.calls) + Cardinality(auth.sessions) < MaxLive)

ChurnTick == pc.at = "spin" /\ Tick

ChurnNext ==
    \/ ChurnCreateSession
    \/ GeoResponse
    \/ GeoTimeout
    \/ GeoAnswer
    \/ CreateSessionResume
    \/ CreateSessionSpinExit
    \/ RevokeSession
    \/ ChurnTick

SpecChurn == ChurnInit /\ [][ChurnNext]_vars

\* One user stays logged in while another logs in and out within one
\* millisecond: u2 makes the first createSession call, then u1 calls
\* createSession when it has no session and no call under way, and
\* revokeUserSessions for itself.
KeepCreateFirst ==
    CreateSessionOf({"u2"}, UserAgents, {FALSE}, auth.started = 0)

KeepCreateSession ==
    CreateSessionOf({"u1"}, UserAgents, {FALSE},
                    /\ auth.started > 0
                    /\ Len(auth.calls) = 0
                    /\ \A s \in auth.sessions : s.userId # "u1")

KeepRevoke ==
    /\ \E s \in auth.sessions : s.userId = "u1"
    /\ RevokeUserSessionsOf({"u1"})

KeepNext ==
    \/ KeepCreateFirst
    \/ KeepCreateSession
    \/ GeoResponse
    \/ GeoTimeout
    \/ GeoAnswer
    \/ CreateSessionResume
    \/ CreateSessionSpinExit
    \/ KeepRevoke
    \/ ChurnTick

SpecKeep == ChurnInit /\ [][KeepNext]_vars

---------------------------------------------------------------------------
(* Claims about the id generator *)

\* C1: every id generateId() returns is, as an integer, strictly greater
\* than every id the same instance returned before it (so none is returned
\* twice), also across a sequence overflow.
C1_IdsStrictlyIncrease ==
    hist.prev # NoId => IdLess(hist.prev, hist.last)

\* C2: at most 4096 ids carry the same timestamp field; the call in which
\* the sequence wraps to 0 returns an id of a later millisecond than the one
\* it was called in, with sequence 0.
C2_AtMost4096PerMillisecond ==
    /\ hist.sameTs <= MAX_SEQUENCE + 1
    /\ ret.wrapped => (ret.id.ts > ret.startMs /\ ret.id.seq = 0)

---------------------------------------------------------------------------
(* Claims about tokens *)

Verified == tk.made = "ok" /\ tk.res.kind # "none"
ShownParts == Split(tk.shown, Dot)
PayloadLength == Len(Split(tk.token, Dot)[1])

\* C5: for every JSON value D (null, booleans, numbers, strings, arrays and
\* objects of these) and every non-empty secret, verifyToken applied to
\* generateToken(D) on an instance with the same secret returns a value
\* equal to D.
C5_RoundTripOfJson ==
    (Verified /\ tk.change = "none" /\ IsJson(tk.data))
        => (tk.res.kind = "ok" /\ JsEqual(tk.res.val, tk.data))

C5_Witness ==
    /\ Verified /\ tk.change = "none" /\ tk.res.kind = "ok"
    /\ tk.data = Payloads[6]

\* C6: a valid token with one character changed, in its payload, its
\* separator or its signature, is never accepted by verifyToken.
C6_AlteredTokenRejected ==
    (Verified /\ tk.change = "char") => tk.res.kind # "ok"

C6_Witness ==
    /\ Verified /\ tk.change = "char" /\ tk.at > PayloadLength + 1
    /\ tk.res.kind = "HelixError" /\ tk.res.msg = "Invalid token signature"

\* C7: whenever the signature segment of a two-part token differs from the
\* signature recomputed from its payload, in content or in length,
\* verifyToken fails with the HelixError 'Invalid token signature' and with
\* no other error.
C7_MismatchIsInvalidSignature ==
    (/\ Verified
     /\ Len(ShownParts) = 2
     /\ ShownParts[2] # signPayload(helix, ShownParts[1]))
        => (tk.res.kind = "HelixError" /\ tk.res.msg = "Invalid token signature")

---------------------------------------------------------------------------
(* Claims about sessions *)

ExpiresInOf(isRememberMe) ==
    IF isRememberMe THEN rememberMeExpiry ELSE accessTokenExpiry

\* C3: createSession(data) completes successfully with an access token, a
\* refresh token and expiresIn, which is rememberMeExpiry when
\* data.isRememberMe and accessTokenExpiry otherwise; the session table
\* then holds an entry under the sessionId of the tokens.
C3_CreateSessionSucceeds ==
    auth.res.op = "createSession" =>
        /\ auth.res.kind = "ok"
        /\ auth.res.expiresIn = ExpiresInOf(auth.res.data.isRememberMe)
        /\ SessionsHas(auth.sessions, auth.res.data.sessionId)

\* C4: validateAccessToken(token) returns the token's data, with its
\* sessionId and userId, and does not fail, for an access token of
\* createSession whose exp is not before now and whose session is in the
\* table.
C4_LiveTokenValidates ==
    (/\ auth.res.op = "validateAccessToken"
     /\ auth.res.wellFormed
     /\ auth.res.arg.exp - auth.res.arg.iat = ExpiresInOf(auth.res.arg.isRememberMe)
     /\ ~(auth.res.arg.exp < auth.now)
     /\ SessionsHas(auth.sessions, auth.res.arg.sessionId))
        => /\ auth.res.kind = "ok"
           /\ auth.res.data.sessionId = auth.res.arg.sessionId
           /\ auth.res.data.userId = auth.res.arg.userId

\* C8: every failure of createSession, validateAccessToken and
\* refreshAccessToken reaches the caller as an AuthError with a code; no
\* HelixError, TypeError or parse error escapes.
C8_FailuresAreAuthErrors ==
    (/\ auth.res.op \in {"createSession", "validateAccessToken", "refreshAccessToken"}
     /\ auth.res.kind # "ok")
        => (auth.res.kind = "AuthError" /\ auth.res.code # "")

\* C9: validateAccessToken fails with INVALID_TOKEN for a token that cannot
\* be decoded; otherwise with TOKEN_EXPIRED when exp < now, also when the
\* session is gone; otherwise with SESSION_NOT_FOUND when the session is not
\* in the table; exp = now is not expired.
C9_ValidateFailureOrder ==
    auth.res.op = "validateAccessToken" =>
        IF ~auth.res.wellFormed
        THEN auth.res.kind = "AuthError" /\ auth.res.code = "INVALID_TOKEN"
        ELSE IF auth.res.arg.exp < auth.now
        THEN auth.res.kind = "AuthError" /\ auth.res.code = "TOKEN_EXPIRED"
        ELSE IF ~SessionsHas(auth.sessions, auth.res.arg.sessionId)
        THEN auth.res.kind = "AuthError" /\ auth.res.code = "SESSION_NOT_FOUND"
        ELSE auth.res.kind = "ok"

\* C10: a session id that was removed from the session table is never a
\* key of the table again, and validateAccessToken and refreshAccessToken
\* fail for every token naming it.
C10_RevokedIsTerminal ==
    /\ \A g \in auth.gone : ~SessionsHas(auth.sessions, g.id)
    /\ (/\ auth.res.op \in {"validateAccessToken", "refreshAccessToken"}
        /\ auth.res.wellFormed
        /\ \E g \in auth.gone : g.id = auth.res.arg.sessionId)
          => auth.res.kind # "ok"

\* The last step was refreshAccessToken called with a refresh token of
\* createSession that is not expired and whose session is in the table
RefreshOfLiveToken ==
    /\ auth.res.op = "refreshAccessToken"
    /\ auth.res.wellFormed
    /\ auth.res.arg.exp - auth.res.arg.iat = refreshTokenExpiry
    /\ ~(auth.res.arg.exp < auth.now)
    /\ SessionsHas(auth.sessions, auth.res.arg.sessionId)

\* C11: refreshAccessToken with an unexpired refresh token whose session is
\* in the table returns a token pair for a session under a new id, with the
\* userId and isRememberMe of the old session, and the old entry stays.
C11_RefreshCreatesSession ==
    RefreshOfLiveToken =>
        /\ auth.res.kind = "ok"
        /\ auth.res.data.sessionId # auth.res.arg.sessionId
        /\ auth.res.data.userId = auth.res.arg.userId
        /\ auth.res.data.isRememberMe = auth.res.arg.isRememberMe
        /\ SessionsHas(auth.sessions, auth.res.data.sessionId)

\* C12: refreshAccessToken fails with REFRESH_TOKEN_EXPIRED when the token's
\* exp is before now, and otherwise with SESSION_NOT_FOUND when its session
\* is not in the table.
C12_RefreshFailureCodes ==
    (auth.res.op = "refreshAccessToken" /\ auth.res.wellFormed) =>
        IF auth.res.arg.exp < auth.now
        THEN auth.res.kind = "AuthError" /\ auth.res.code = "REFRESH_TOKEN_EXPIRED"
        ELSE ~SessionsHas(auth.sessions, auth.res.arg.sessionId)
                => (auth.res.kind = "AuthError" /\ auth.res.code = "SESSION_NOT_FOUND")

\* C13: a refresh token that is unexpired and whose session is in the table
\* is not refused as invalid, however often it was presented before.
C13_RefreshTokenStaysUsable ==
    RefreshOfLiveToken =>
        ~(auth.res.kind = "AuthError" /\ auth.res.code = "INVALID_REFRESH_TOKEN")

\* C14: revokeSession(id) removes the entry of id when there is one and
\* leaves every other entry as it was; it does not fail, and for an id that
\* is not in the table (never was, or was revoked before) it leaves the
\* table as it was.
C14_RevokeSessionRemovesOne ==
    [][auth'.res.op = "revokeSession" =>
          /\ auth'.res.kind = "ok"
          /\ auth'.sessions = {s \in auth.sessions : s.id # auth'.res.id}]_vars

C14_Witness ==
    /\ auth.res.op = "revokeSession"
    /\ \E g \in auth.gone : g.id = auth.res.id
    /\ auth.sessions # {}

\* C15: after revokeUserSessions(u) the table holds no entry of user u, and
\* every entry of another user is in it as before.
C15_RevokeUserSessionsRemovesUser ==
    [][auth'.res.op = "revokeUserSessions" =>
          /\ \A s \in auth'.sessions : s.userId # auth'.res.user
          /\ {s \in auth.sessions : s.userId # auth'.res.user} = auth'.sessions]_vars

C15_Witness ==
    /\ auth.res.op = "revokeUserSessions"
    /\ \E g \in auth.gone : g.userId = auth.res.user
    /\ \E s \in auth.sessions : s.userId # auth.res.user

\* C16: cleanupSessions() removes the sessions whose lastActivity is more
\* than 30 days (2,592,000 s) before now and no others: a session idle for
\* exactly 30 days or less stays as it was.
C16_CleanupRemovesIdleSessions ==
    [][auth'.res.op = "cleanupSessions" =>
          /\ auth'.sessions \subseteq auth.sessions
          /\ \A s \in auth.sessions :
                s \in auth'.sessions <=> auth.now - s.lastActivity <= 2592000]_vars

C16_Witness ==
    /\ auth.res.op = "cleanupSessions"
    /\ \E g \in auth.gone : auth.now - g.lastActivity = 2592000 + 1
    /\ \E s \in auth.sessions : s.lastActivity = auth.now

\* C17: when the lookup of a createSession call failed (transport error,
\* timeout, a status other than 'success', an unreadable body), the call is
\* not ended by the lookup's Error: the session it stores under the session
\* id of its token data has location country 'Unknown', city 'Unknown' and
\* timezone 'UTC'.
C17_FailedLookupGivesPlaceholder ==
    auth.res.lookupFailed =>
        /\ auth.res.kind # "Error"
        /\ \E s \in auth.sessions :
              /\ s.id = auth.res.data.sessionId
              /\ s.deviceInfo.location.country = "Unknown"
              /\ s.deviceInfo.location.city = "Unknown"
              /\ s.deviceInfo.location.timezone = "UTC"

C17_Witness ==
    /\ auth.res.lookupFailed
    /\ auth.res.op = "createSession"
    /\ \E s \in auth.sessions :
          s.id # auth.res.data.sessionId /\ s.deviceInfo.location.country = "NL"

\* C18: every createSession call that is under way eventually completes,
\* whatever the geolocation service does: whenever calls are in flight, a
\* time comes when none is.
C18_EveryCallCompletes ==
    (auth.calls # <<>>) ~> (auth.calls = <<>>)

\* C19: a createSession call takes the location from the cache, without a
\* request to the service, exactly when the cache holds an entry for its ip
\* stored less than 24 hours (86,400 s) before; otherwise it asks the
\* service.  When the service's answer has status 'success', the cache holds
\* afterwards one entry for the ip, with the answer and the current time,
\* and the entries of other addresses as before.
C19_CacheAnswersWithin24Hours ==
    [][/\ auth'.res.lookup # "none" =>
             LET call == auth'.calls[Len(auth'.calls)]
                 fresh == {c \in auth.ipCache :
                             c.ip = call.data.ip /\ auth.now - c.timestamp < 86400}
             IN  /\ auth'.res.lookup = "cache" <=> fresh # {}
                 /\ auth'.res.lookup = "cache" =>
                       /\ call.stage = "ready"
                       /\ \E c \in fresh : call.location = c.data
                 /\ auth'.res.lookup = "service" => call.stage = "lookup"
                 /\ auth'.ipCache = auth.ipCache
       /\ \A i \in 1..Len(auth.calls) :
             (/\ auth.calls[i].stage = "body"
              /\ Len(auth'.calls) = Len(auth.calls)
              /\ auth'.calls[i].stage = "ready"
              /\ ~auth'.calls[i].failed) =>
                LET ip == auth.calls[i].data.ip IN
                /\ {c \in auth'.ipCache : c.ip = ip}
                      = {[ip |-> ip, data |-> auth'.calls[i].location,
                          timestamp |-> auth.now]}
                /\ {c \in auth'.ipCache : c.ip # ip}
                      = {c \in auth.ipCache : c.ip # ip}]_vars

\* A call asks the service although the cache holds an entry for its ip,
\* stored exactly 24 hours before.
C19_Witness ==
    /\ auth.res.lookup = "service"
    /\ \E c \in auth.ipCache :
          /\ c.ip = auth.calls[Len(auth.calls)].data.ip
          /\ auth.now - c.timestamp = 86400

\* C20: a generateId() call that reads a clock value earlier than the
\* timestamp of the last id the instance issued fails with the HelixError
\* 'Clock moved backwards ...', returns no id, and leaves the sequence
\* counter and the last-timestamp fields of the instance as they were.
C20_ClockBackwardsFails ==
    [][(/\ pc.at = "idle"
        /\ clock' = clock
        /\ hist.last # NoId
        /\ MsOf(clock) < hist.last.ts) =>
          /\ ret'.kind = "error"
          /\ ret'.id = NoId
          /\ hist' = hist
          /\ pc' = pc
          /\ helix' = helix]_vars

C20_Witness ==
    /\ ret.kind = "error"
    /\ hist.last # NoId
    /\ MsOf(clock) < hist.last.ts
    /\ helix.sequence > 0
    /\ helix.lastTimestamp = hist.last.ts

\* C21: new Helix({workerId: w}) with w greater than 1023 throws a HelixError
\* and gives no instance; with w in 0..1023 it gives an instance whose
\* worker id is w.
C21_WorkerIdLimit ==
    (ret.kind \in {"new", "HelixError"} /\ ret.explicit) =>
        /\ ret.workerId > 1023 => (ret.kind = "HelixError" /\ helix = NoHelix)
        /\ ret.workerId \in 0..1023 =>
              (ret.kind = "new" /\ helix # NoHelix /\ helix.workerId = ret.workerId)

C21_Witness ==
    /\ ret.kind = "HelixError"
    /\ ret.explicit
    /\ ret.workerId = 1024
    /\ helix = NoHelix

\* What decodeId gives for the id the last generateId() call returned
Decoded == decodeId(PackId(helix.variant, ret.id))

\* C22: for the id a generateId() call returned, decodeId gives the worker
\* id of the instance and the value of its sequence counter, which lies in
\* 0..4095.
C22_DecodeGivesWorkerAndSequence ==
    (ret.kind = "id" /\ pc.at = "idle") =>
        /\ Decoded.workerId = helix.workerId
        /\ Decoded.sequence = helix.sequence
        /\ Decoded.sequence \in 0..4095

\* C23: for the id a generateId() call returned, the timestamp decodeId
\* gives is the wall-clock time in milliseconds since the Unix epoch at
\* which the call read the clock.  (Instances with a worker id in 0..1023,
\* calls that did not wait for the clock.)
C23_DecodedTimestampIsWallClock ==
    (ret.kind = "id" /\ ~ret.wrapped /\ helix.workerId \in 0..1023) =>
        Decoded.timestamp = WallClock(ret.startMs)

\* The code generateTOTPCode gives for the time t, when t lies within the
\* counters of the model
IsCodeFor(code, secret, t) ==
    /\ (t \div 30) - TotpFirstCounter + 1 \in 1..Len(TotpCodes(secret))
    /\ code = CodeOfStep(secret, t \div 30)

\* C25 as amended: verifyTOTP(secret, code) at the second now returns true
\* exactly when code is the code of one of the three 30-second steps that
\* contain now-30, now and now+30, and false otherwise, without throwing; so
\* a code generated for the time T is accepted at T-30, T and T+30.
C25_VerifyTOTPWindow ==
    auth.res.op = "verifyTOTP" =>
        /\ auth.res.kind = "ok"
        /\ auth.res.value \in BOOLEAN
        /\ auth.res.value <=>
              \E k \in {(auth.now \div 30) - 1, auth.now \div 30,
                         (auth.now \div 30) + 1} :
                 auth.res.input = CodeOfStep(auth.res.secret, k)
        /\ \A t \in {auth.now - 30, auth.now, auth.now + 30} :
              IsCodeFor(auth.res.input, auth.res.secret, t) => auth.res.value

\* A code generated for the last second of a step is accepted in the first
\* second of the step before.
C25_Witness ==
    /\ auth.res.op = "verifyTOTP"
    /\ auth.res.value
    /\ auth.now % 30 = 0
    /\ IsCodeFor(auth.res.input, auth.res.secret, auth.now + 30 + 29)
    /\ auth.res.input # CodeOfStep(auth.res.secret, auth.now \div 30)

\* C25 as stated: moreover a code generated for the time T is rejected at
\* T-60 and at T+60.
C25_RejectedTwoStepsAway ==
    auth.res.op = "verifyTOTP" =>
        /\ auth.res.value <=>
              \E k \in {(auth.now \div 30) - 1, auth.now \div 30,
                         (auth.now \div 30) + 1} :
                 auth.res.input = CodeOfStep(auth.res.secret, k)
        /\ \A t \in {auth.now - 60, auth.now + 60} :
              IsCodeFor(auth.res.input, auth.res.secret, t) => ~auth.res.value

\* C26: a user agent with a tablet keyword is 'tablet'; otherwise one with a
\* mobile keyword (iPhone, Mobile, ...) is 'mobile'; otherwise one with a
\* desktop keyword (Windows NT, Macintosh, ...) is 'desktop'; otherwise it is
\* 'unknown'.
C26_DevicePrecedence ==
    auth.res.op = "detectDeviceType" =>
        LET ua == auth.res.userAgent IN
        auth.res.value =
            IF TabletPattern(ua) THEN "tablet"
            ELSE IF \E w \in MobileWords : Contains(ua, w) THEN "mobile"
            ELSE IF \E w \in DesktopWords : Contains(ua, w) THEN "desktop"
            ELSE "unknown"

\* C27: verifyBackupCode(code) returns true exactly for the strings of eight
\* characters from 0-9 and A-F, whether or not the code was verified before
\* and whether or not generateBackupCodes ever returned it; every code
\* generateBackupCodes returns is such a string, and is accepted.
C27_BackupCodeIsFormatOnly ==
    /\ auth.res.op = "verifyBackupCode" =>
          /\ auth.res.value <=>
                /\ Len(auth.res.input) = 8
                /\ \A i \in 1..Len(auth.res.input) :
                      auth.res.input[i] \in (48..57) \cup (65..70)
          /\ auth.res.issued => auth.res.value
    /\ auth.res.op = "generateBackupCodes" =>
          \A i \in 1..Len(auth.res.value) :
             /\ Len(auth.res.value[i]) = 8
             /\ \A j \in 1..8 : auth.res.value[i][j] \in (48..57) \cup (65..70)

\* A code that was never issued is accepted a second time.
C27_Witness ==
    /\ auth.res.op = "verifyBackupCode"
    /\ auth.res.value
    /\ auth.res.before
    /\ ~auth.res.issued
    /\ auth.issued # {}

\* C28: the first generateId() call of an instance returns an id with
\* sequence 0; a call in the millisecond of the id returned last returns an
\* id with the same timestamp field and that id's sequence plus 1, unless
\* the sequence wraps; a call in a later millisecond returns an id with
\* sequence 0.
C28_SequenceFollowsClock ==
    [][(pc.at = "idle" /\ clock' = clock) =>
          /\ hist.last = NoId =>
                (ret'.kind = "id" /\ ret'.id.seq = 0)
          /\ (/\ hist.last # NoId
              /\ MsOf(clock) = hist.last.ts
              /\ hist.last.seq < 4095) =>
                /\ ret'.kind = "id"
                /\ ret'.id.ts = hist.last.ts
                /\ ret'.id.seq = hist.last.seq + 1
          /\ (hist.last # NoId /\ MsOf(clock) > hist.last.ts) =>
                (ret'.kind = "id" /\ ret'.id.seq = 0)]_vars

\* C29: in the token data createSession builds for the access token of a
\* session, exp - iat is exactly the lifetime of that token (expiresIn),
\* also when the wall clock advances during the call.
C29_TokenLifetimeExact ==
    (auth.res.op = "createSession" /\ auth.res.data # NoTokenData) =>
        auth.res.data.exp - auth.res.data.iat =
            (IF auth.res.data.isRememberMe THEN rememberMeExpiry
             ELSE accessTokenExpiry)

\* The step in which a createSession call has stored its session
CreateSessionStored ==
    /\ Len(auth'.calls) < Len(auth.calls)
    /\ auth'.res.op = "createSession"
    /\ auth'.res.data # NoTokenData

\* C30: a createSession call that stores its session adds exactly one entry
\* to the session table, under an id that was not a key of the table
\* before, with the userId and isRememberMe of the call and the time of the
\* call as lastActivity, and every entry the table had stays as it was.
C30_CreateSessionAddsOneEntry ==
    [][CreateSessionStored =>
          /\ ~SessionsHas(auth.sessions, auth'.res.data.sessionId)
          /\ auth.sessions \subseteq auth'.sessions
          /\ Cardinality(auth'.sessions) = Cardinality(auth.sessions) + 1
          /\ \E s \in auth'.sessions :
                /\ s.id = auth'.res.data.sessionId
                /\ s.userId = auth'.res.data.userId
                /\ s.isRememberMe = auth'.res.data.isRememberMe
                /\ auth.now <= s.lastActivity
                /\ s.lastActivity <= auth'.now]_vars

\* C31: every instance built has a worker id in 0..1023, passed or derived,
\* and new Helix({workerId: w}) with w outside 0..1023, negative ones
\* included, throws and gives no instance.
C31_WorkerIdInRange ==
    /\ helix # NoHelix => helix.workerId \in 0..MAX_WORKER_ID
    /\ (/\ ret.kind \in {"new", "HelixError"}
        /\ ret.explicit
        /\ ret.workerId \notin 0..MAX_WORKER_ID)
          => (ret.kind = "HelixError" /\ helix = NoHelix)

\* The clock shows a reading later than the one the waiting call took at
\* its start
ClockIsPast ==
    IF helix.variant = "date" THEN MsOf(clock) > pc.since ELSE clock > pc.since

\* C32: a generateId() call that waits in the overflow loop ends, unless
\* from some time on the clock never shows a reading later than the one
\* taken at the start of the call; the loop is left on such a reading only,
\* and the call that leaves it returns an id.
C32_SpinWaitEnds ==
    /\ [](pc.at = "spin" => (<>(pc.at = "idle") \/ <>[]~ClockIsPast))
    /\ [][(pc.at = "spin" /\ pc'.at = "idle") =>
            (/\ ret'.kind = "id"
             /\ ret'.wrapped
             /\ IF helix.variant = "date" THEN MsOf(clock) > pc.since
                ELSE clock > pc.since)]_vars

C32_Witness ==
    /\ pc.at = "idle"
    /\ ret.kind = "id"
    /\ ret.wrapped
    /\ hist.last = ret.id

\* C33: a generateId() call fails with 'Clock moved backwards' only when
\* the clock reads an earlier millisecond than at the call that returned
\* the last id, also after an overflow and its wait.
C33_NoErrorWithoutSetBack ==
    [][(/\ pc.at = "idle"
        /\ clock' = clock
        /\ ret' # ret
        /\ ret'.kind = "error") =>
          (hist.last # NoId /\ MsOf(clock) < hist.last.ts)]_vars

\* C34: the step in which a createSession call fails leaves the session
\* table as it was: no entry stays behind for the failed call.
C34_FailedCreateLeavesTable ==
    [][(/\ Len(auth'.calls) < Len(auth.calls)
        /\ auth'.res.op = "createSession"
        /\ auth'.res.kind \notin {"ok", "none"}) =>
          auth'.sessions = auth.sessions]_vars

\* C35: when revokeUserSessions(u) has returned the session table holds no
\* session of u, and the next step, in which no call started after the
\* revoke can have got to its end, puts none in: a createSession for u
\* that was waiting during the revoke adds no session of u.
C35_RevokedUserStaysOut ==
    [][auth.res.op = "revokeUserSessions" =>
          /\ \A s \in auth.sessions : s.userId # auth.res.user
          /\ \A s \in auth'.sessions : s.userId # auth.res.user]_vars

C37_ValidateLeavesTable ==
    [][/\ auth'.res.op = "validateAccessToken" => auth'.sessions = auth.sessions
       /\ \A s \in auth.sessions : \A t \in auth'.sessions :
             t.id = s.id => t.lastActivity = s.lastActivity
       /\ \A t \in auth'.sessions :
             (~SessionsHas(auth.sessions, t.id)) =>
                (auth.now <= t.lastActivity /\ t.lastActivity <= auth'.now)
       /\ auth'.res.op = "cleanupSessions" =>
             \A s \in auth.sessions :
                auth.now - s.lastActivity > SESSION_MAX_IDLE =>
                   s \notin auth'.sessions]_vars

C37_Witness ==
    /\ auth.res.op = "validateAccessToken"
    /\ auth.res.wellFormed
    /\ \E s \in auth.sessions :
          /\ s.id = auth.res.arg.sessionId
          /\ auth.now - s.lastActivity > SESSION_MAX_IDLE

\* C38: every entry of the geo cache holds the data of a successful lookup,
\* never the 'Unknown' placeholder; the step in which the lookup of a call
\* fails leaves the cache as it was; and a call for an address without a
\* fresh cache entry asks the service.
C38_FailedLookupNotCached ==
    [][/\ \A c \in auth'.ipCache :
             c.data = GeoData(c.ip) /\ c.data # GeoUnknown(c.ip)
       /\ (/\ Len(auth'.calls) = Len(auth.calls)
            /\ \E i \in 1..Len(auth.calls) :
                  ~auth.calls[i].failed /\ auth'.calls[i].failed)
              => auth'.ipCache = auth.ipCache
       /\ (/\ Len(auth'.calls) > Len(auth.calls)
            /\ CacheHits(auth, auth'.calls[Len(auth'.calls)].data.ip) = {})
              => (/\ auth'.calls[Len(auth'.calls)].stage = "lookup"
                  /\ auth'.res.lookup = "service")]_vars

\* A call asks the service for an address whose lookup failed before
C38_Witness ==
    /\ auth.res.lookup = "service"
    /\ auth.ipCache = {}
    /\ Len(auth.calls) > 0
    /\ \E s \in auth.sessions :
          /\ s.deviceInfo.ip = auth.calls[Len(auth.calls)].data.ip
          /\ s.deviceInfo.location.country = GeoUnknown(s.deviceInfo.ip).country

\* The last step was validateAccessToken or refreshAccessToken with a token
\* of the other kind, made by createSession, not expired, for a session in
\* the table
TokenOfOtherKind ==
    /\ auth.res.op \in {"validateAccessToken", "refreshAccessToken"}
    /\ auth.res.wellFormed
    /\ (auth.res.op = "validateAccessToken") <=>
          (auth.res.arg.exp - auth.res.arg.iat = refreshTokenExpiry)
    /\ ~(auth.res.arg.exp < auth.now)
    /\ SessionsHas(auth.sessions, auth.res.arg.sessionId)

\* C39: validateAccessToken accepts a refresh token of createSession that
\* is not expired and whose session is in the table, and refreshAccessToken
\* does not reject an access token under the same conditions.
C39_KindsInterchangeable ==
    TokenOfOtherKind => auth.res.kind = "ok"

=============================================================================
